---- MODULE Spec2Model ----
(***************************************************************************)
(* Model of the reconciliation core of src/main.py: the PO deduction       *)
(* ledger (load_po_deductions, get_po_available_balance,                   *)
(* save_po_deduction), the vendor resolution of run_reconciliation, the    *)
(* window / PO matching / aggregation part of render_reco, the Common tab  *)
(* of render_reco (auto-rule, Apply Selected, consolidation) with the      *)
(* store of saved Dept mappings, and the deduction form of the Analysis    *)
(* tab.                                                                    *)
(*                                                                         *)
(* Conventions                                                             *)
(*  - money is an integer number of cents;                                 *)
(*  - a fee rate is an integer number of percent, so every amount that the *)
(*    code multiplies by (1 + CC_Fee) or by CC_Fee is kept multiplied by   *)
(*    100 (names ending in 100);                                           *)
(*  - a date is the day number within 2024 (DayOf2024), NaT is the value   *)
(*    pandas gives an unparsable date;                                     *)
(*  - a data frame is the sequence of its rows, NA is a missing cell.      *)
(***************************************************************************)
EXTENDS Integers, Sequences, FiniteSets, TLC

VARIABLES
    master_df,      \* data/master: vendor master rows
    mappings_df,    \* data/mappings: description -> prefix rows
    po_df,          \* records/po: purchase order rows
    cc_batch,       \* the rows of records/cc of the selected batch
    dept_mappings,  \* records/common_dept_mappings: reference id -> Dept
    ledger,         \* records/po_deductions: the deduction rows
    grace_days,     \* st.session_state["results_grace_days"]
    reco_df,        \* st.session_state["reco_df"]: <<>> or <<the cached frame>>
    results_df,     \* the groups of the Results tab of the last render
    outcome,        \* how the last save_po_deduction call ended
    common_dept_choices,  \* st.session_state["common_dept_choices"]
    common_apply_flags,   \* st.session_state["common_apply_flags"]
    errors,         \* the errors list of the last deduction submission
    deduction_inputs,  \* the deduction_inputs of the last submission
    tables,         \* the table files that exist on disk
    run_status,     \* how the last run of the render_reco script ended
    io_fault,       \* the storage operation that fails in the next call
    calls,          \* the save_po_deduction calls of concurrent sessions
    mapping_updates, \* the mapping_updates of the last Unmapped submission
    save_call,      \* the arguments of the last save_dept_mappings call
    common_form     \* the cells of the last submitted form of the Common tab

vars == <<master_df, mappings_df, po_df, cc_batch, dept_mappings, ledger,
          grace_days, reco_df, results_df, outcome, common_dept_choices,
          common_apply_flags, errors, deduction_inputs, tables, run_status,
          io_fault, calls,
          mapping_updates, save_call, common_form>>

\* Missing cells: NA of a text column, NaN of a numeric column, NaT of a date.
NA == "<NA>"
NaN == -999
NaT == -1000

(***************************************************************************)
(* Bounds of the model.                                                    *)
(***************************************************************************)
MaxLedger == 2

(***************************************************************************)
(* Calendar: the day number of a date of 2024 (a leap year), as            *)
(* pd.to_datetime orders dates and pd.Timedelta(days=n) moves them.        *)
(***************************************************************************)
DaysBeforeMonth == <<0, 31, 60, 91, 121, 152, 182, 213, 244, 274, 305, 335>>

DayOf2024(month, day) == DaysBeforeMonth[month] + day

(***************************************************************************)
(* The deduction ledger.                                                   *)
(***************************************************************************)
load_po_deductions == ledger

RECURSIVE SumDeductions(_, _)
SumDeductions(rows, po_number) ==
    IF rows = <<>> THEN 0
    ELSE (IF Head(rows).PO_Number = po_number
          THEN Head(rows).Deduction_Amount ELSE 0)
         + SumDeductions(Tail(rows), po_number)

\* <<total_deductions, available_balance>>
get_po_available_balance(po_number, po_original_amount) ==
    LET deductions_df == load_po_deductions
        total_deductions == SumDeductions(deductions_df, po_number)
    IN IF deductions_df = <<>>
       THEN <<0, po_original_amount>>
       ELSE <<total_deductions, po_original_amount - total_deductions>>

\* ValidateDeduction without the comparison of the amount with the balance.
ValidateDeduction_NoBalanceCheck(amount, available_balance) ==
    IF amount <= 0 THEN "InvalidAmount"
    ELSE IF available_balance <= 0 THEN "DepletedPO"
    ELSE "ok"

\* The error save_po_deduction raises for a request, "ok" when it raises none.
\* Each error is named after the message of its ValueError.
ValidateDeduction(amount, available_balance) ==
    IF amount <= 0 THEN "InvalidAmount"
    ELSE IF amount > available_balance THEN "InsufficientBalance"
    ELSE IF available_balance <= 0 THEN "DepletedPO"
    ELSE "ok"

NewDeduction(po_number, amount, cc_batch_id) ==
    [PO_Number |-> po_number, Deduction_Amount |-> amount,
     CC_Batch_ID |-> cc_batch_id]

\* CombinedLedger that writes the new row alone, dropping the stored rows.
CombinedLedger_NewRowOnly(existing, po_number, amount, cc_batch_id) ==
    << NewDeduction(po_number, amount, cc_batch_id) >>

\* The ledger that save_po_deduction writes for an accepted request.
CombinedLedger(existing, po_number, amount, cc_batch_id) ==
    Append(existing, NewDeduction(po_number, amount, cc_batch_id))

(***************************************************************************)
(* Text keys.  Descriptions are compared after collapsing runs of white    *)
(* space, stripping and upper-casing; the model knows the descriptions     *)
(* below and their normal forms.                                           *)
(***************************************************************************)
NormalizeDescription(text) ==
    CASE text = "Acme  Supply"  -> "ACME SUPPLY"
      [] text = " acme supply " -> "ACME SUPPLY"
      [] text = "bolt co"       -> "BOLT CO"
      [] text = "Crate Inc"     -> "CRATE INC"
      [] text = "dual llc"      -> "DUAL LLC"
      [] text = "Dual LLC "     -> "DUAL LLC"
      [] text = "dual  llc"     -> "DUAL LLC"
      [] text = "echo ltd"      -> "ECHO LTD"
      [] text = "echo  ltd"     -> "ECHO LTD"
      [] text = "fern gmbh"     -> "FERN GMBH"
      [] text = "zeta corp"     -> "ZETA CORP"
      [] text = "Zeta  Corp"    -> "ZETA CORP"
      [] OTHER                  -> text

\* The keys of the Common tab: str.strip() of a description, and
\* str.strip().str.upper(), which leaves runs of white space inside the text.
StripDescription(text) ==
    CASE text = " acme supply " -> "acme supply"
      [] text = "Dual LLC "     -> "Dual LLC"
      [] OTHER                  -> text

StripUpper(text) ==
    CASE text = "Acme  Supply"  -> "ACME  SUPPLY"
      [] text = " acme supply " -> "ACME SUPPLY"
      [] text = "acme supply"   -> "ACME SUPPLY"
      [] text = "bolt co"       -> "BOLT CO"
      [] text = "Crate Inc"     -> "CRATE INC"
      [] text = "dual llc"      -> "DUAL LLC"
      [] text = "Dual LLC "     -> "DUAL LLC"
      [] text = "Dual LLC"      -> "DUAL LLC"
      [] text = "dual  llc"     -> "DUAL  LLC"
      [] text = "echo ltd"      -> "ECHO LTD"
      [] text = "echo  ltd"     -> "ECHO  LTD"
      [] text = "fern gmbh"     -> "FERN GMBH"
      [] text = "zeta corp"     -> "ZETA CORP"
      [] text = "Zeta  Corp"    -> "ZETA  CORP"
      [] OTHER                  -> text

\* The key of the Unmapped tab, str.strip().str.lower(), which is also how
\* the tab compares a description with the DESCRIPTION of a mapping row
\* (str.strip().str.casefold()).
StripLower(text) ==
    CASE text = "Acme  Supply"  -> "acme  supply"
      [] text = " acme supply " -> "acme supply"
      [] text = "ACME SUPPLY"   -> "acme supply"
      [] text = "Crate Inc"     -> "crate inc"
      [] text = "Dual LLC "     -> "dual llc"
      [] text = "Zeta  Corp"    -> "zeta  corp"
      [] OTHER                  -> text

\* The keys of the Unmapped tab in the order in which
\* groupby("_description_key") sorts them.
LowerOrder ==
    << "acme  supply", "acme supply", "bolt co", "crate inc", "dual  llc",
       "dual llc", "echo  ltd", "echo ltd", "fern gmbh", "zeta  corp",
       "zeta corp" >>

\* The normal forms of the descriptions above in the order in which
\* groupby("_norm_desc") sorts its keys.
DescOrder ==
    << "ACME  SUPPLY", "ACME SUPPLY", "BOLT CO", "CRATE INC", "DUAL  LLC",
       "DUAL LLC", "ECHO  LTD", "ECHO LTD", "FERN GMBH", "ZETA  CORP",
       "ZETA CORP" >>

(***************************************************************************)
(* run_reconciliation: the vendor resolution of the rows of one batch.     *)
(***************************************************************************)
\* batch_df.merge(mappings_df[["PREFIX", "_norm_description"]], how="left"):
\* one row per matching mapping row, in mapping order, or one row without
\* prefix.
MergeRow(row, maps) ==
    LET matches == SelectSeq(maps, LAMBDA m:
                       NormalizeDescription(m.DESCRIPTION)
                           = NormalizeDescription(row.CC_Description))
    IN IF matches = <<>>
       THEN << [row |-> row, PREFIX |-> NA] >>
       ELSE [i \in 1..Len(matches) |-> [row |-> row, PREFIX |-> matches[i].PREFIX]]

RECURSIVE MergeMappings(_, _)
MergeMappings(batch_df, maps) ==
    IF batch_df = <<>> THEN <<>>
    ELSE MergeRow(Head(batch_df), maps) \o MergeMappings(Tail(batch_df), maps)

\* master_df.dropna(subset=["PREFIX"]).drop_duplicates(subset=["PREFIX"]):
\* the first master row of a prefix (as a sequence, empty when the prefix has
\* no master row).
MasterTrim(master, prefix) ==
    LET rows == SelectSeq(master, LAMBDA m: m.PREFIX = prefix)
    IN IF rows = <<>> THEN <<>> ELSE <<Head(rows)>>

\* dict(zip(CC_Reference_ID, Dept)) of the saved overrides: the last row of a
\* reference id wins.
RefIdToDept(saved, ref_id) ==
    LET rows == SelectSeq(saved, LAMBDA m: m.CC_Reference_ID = ref_id)
    IN IF rows = <<>> THEN NA ELSE rows[Len(rows)].Dept

\* Payment terms of the first master row of (prefix, dept), NaN when there is
\* none.
MasterTermsFor(master, prefix, dept) ==
    LET rows == SelectSeq(master, LAMBDA m: m.PREFIX = prefix /\ m.DEPT = dept)
    IN IF rows = <<>> THEN NaN ELSE Head(rows).PAYMENT_TERMS

\* The row of reco_df for one merged row, before the saved overrides.
ResolveRow(merged, master) ==
    LET row == merged.row
        Vendor_Prefix == IF merged.PREFIX = NA THEN "" ELSE merged.PREFIX
        m == MasterTrim(master, Vendor_Prefix)
    IN [CC_Reference_ID |-> row.CC_Reference_ID,
        CC_Txn_Date     |-> row.CC_Txn_Date,
        CC_Description  |-> row.CC_Description,
        CC_Amt          |-> row.CC_Amt,
        Import_Batch_ID |-> row.Import_Batch_ID,
        Reco_ID         |-> row.Reco_ID,
        Vendor_Prefix   |-> Vendor_Prefix,
        Category        |-> IF Vendor_Prefix = "" \/ m = <<>>
                            THEN "Unmapped" ELSE m[1].CATEGORY,
        Dept            |-> IF Vendor_Prefix = "" \/ m = <<>>
                            THEN NA ELSE m[1].DEPT,
        Payment_Terms   |-> IF Vendor_Prefix = "" THEN NaN
                            ELSE IF m = <<>> THEN 0 ELSE m[1].PAYMENT_TERMS]

\* ApplySavedDept that rewrites the rows of every category.
ApplySavedDept_AnyCategory(r, saved, master) ==
    LET saved_dept == RefIdToDept(saved, r.CC_Reference_ID)
    IN IF saved_dept # NA
       THEN [r EXCEPT !.Category = IF saved_dept = "FBA"
                                   THEN "ONLY FBA" ELSE "ONLY FBM",
                      !.Dept = saved_dept]
       ELSE r

\* Saved Dept mapping of a COMMON row: Category becomes ONLY <dept>.
ApplySavedDept(r, saved, master) ==
    LET saved_dept == RefIdToDept(saved, r.CC_Reference_ID)
        terms == MasterTermsFor(master, r.Vendor_Prefix, saved_dept)
    IN IF saved_dept # NA /\ r.Category = "COMMON"
       THEN [r EXCEPT !.Category = IF saved_dept = "FBA"
                                   THEN "ONLY FBA" ELSE "ONLY FBM",
                      !.Dept = saved_dept,
                      !.Payment_Terms = IF r.Vendor_Prefix # "" /\ terms # NaN
                                        THEN terms ELSE @]
       ELSE r

run_reconciliation(batch_df) ==
    LET merged == MergeMappings(batch_df, mappings_df)
    IN [i \in 1..Len(merged) |->
           ApplySavedDept(ResolveRow(merged[i], master_df),
                          dept_mappings, master_df)]

(***************************************************************************)
(* render_reco: partition of reco_df, windows and CC aggregation.          *)
(***************************************************************************)
CategoryUpper(category) == IF category = "Unmapped" THEN "UNMAPPED" ELSE category

mapped_df(reco) ==
    SelectSeq(reco, LAMBDA r:
        CategoryUpper(r.Category) \notin {"UNMAPPED", "COMMON", "NOT AVBL"})

\* The PO table cannot be read: render_reco warns "Unable to load PO
\* summary" and goes on without having read the ledger, and the use of
\* deductions_df that follows raises UnboundLocalError.  The branch of an
\* empty mapped_df reads neither.
ResultsCrash(reco) ==
    "records/po" \notin tables /\ mapped_df(reco) # <<>>

Window_Start(txn_date, payment_terms, grace) ==
    IF txn_date = NaT THEN NaT ELSE txn_date - payment_terms - grace

\* Window_End with the grace days after the charge whatever the terms.
Window_End_Symmetric(txn_date, payment_terms, grace) ==
    IF txn_date = NaT THEN NaT ELSE txn_date + grace

Window_End(txn_date, payment_terms, grace) ==
    IF txn_date = NaT THEN NaT
    ELSE IF payment_terms > 0 THEN txn_date ELSE txn_date + grace

\* One row of results_base: the mapped row with numeric payment terms and its
\* own window.
ResultsBaseRow(r, grace) ==
    LET terms == IF r.Payment_Terms = NaN THEN 0 ELSE r.Payment_Terms
    IN [CC_Reference_ID |-> r.CC_Reference_ID,
        CC_Amt          |-> r.CC_Amt,
        CC_Txn_Date     |-> r.CC_Txn_Date,
        Vendor_Prefix   |-> r.Vendor_Prefix,
        Dept            |-> IF r.Dept = NA THEN "<missing dept>" ELSE r.Dept,
        Payment_Terms   |-> terms,
        Window_Start    |-> Window_Start(r.CC_Txn_Date, terms, grace),
        Window_End      |-> Window_End(r.CC_Txn_Date, terms, grace)]

results_base(reco, grace) ==
    LET mapped == mapped_df(reco)
    IN [i \in 1..Len(mapped) |-> ResultsBaseRow(mapped[i], grace)]

\* results_group_cols
GroupKey(r) ==
    [CC_Txn_Date |-> r.CC_Txn_Date, Vendor_Prefix |-> r.Vendor_Prefix,
     Dept |-> r.Dept, Payment_Terms |-> r.Payment_Terms]

\* drop_duplicates(subset=["CC_Reference_ID"], keep="first")
RECURSIVE DropDuplicateRefs(_, _)
DropDuplicateRefs(rows, seen) ==
    IF rows = <<>> THEN <<>>
    ELSE IF Head(rows).CC_Reference_ID \in seen
         THEN DropDuplicateRefs(Tail(rows), seen)
         ELSE <<Head(rows)>>
              \o DropDuplicateRefs(Tail(rows),
                                   seen \cup {Head(rows).CC_Reference_ID})

\* results_base_unique without the drop_duplicates.
results_base_unique_NoDedup(base) == base

results_base_unique(base) == DropDuplicateRefs(base, {})

RECURSIVE SumCCAmt(_)
SumCCAmt(rows) ==
    IF rows = <<>> THEN 0 ELSE Head(rows).CC_Amt + SumCCAmt(Tail(rows))

\* groupby(results_group_cols).agg(Total_CC_Amount=sum, Transaction_Count=nunique)
CCGroup(rows, key) ==
    LET members == SelectSeq(rows, LAMBDA r: GroupKey(r) = key)
    IN [key |-> key,
        Total_CC_Amount |-> SumCCAmt(members),
        CC_Transaction_Count |->
            Cardinality({members[i].CC_Reference_ID : i \in 1..Len(members)}),
        CC_Reference_IDs |->
            {members[i].CC_Reference_ID : i \in 1..Len(members)}]

CCGroups(base) ==
    LET rows == results_base_unique(base)
    IN {CCGroup(rows, key) : key \in {GroupKey(rows[i]) : i \in 1..Len(rows)}}

(***************************************************************************)
(* render_reco: the PO table with the ledger applied.                      *)
(***************************************************************************)
\* PO import (render_po_data): the (prefix|dept) -> CC fee lookup of the
\* master, last row wins, 0 when the vendor has no row.
cc_fee_lookup(master, prefix, dept) ==
    LET rows == SelectSeq(master, LAMBDA m: m.PREFIX = prefix /\ m.DEPT = dept)
    IN IF rows = <<>> THEN 0 ELSE rows[Len(rows)].CC_FEE

\* PO import: CC_Fee is the master's fee at import time and
\* Total_PO_Amount = PO_Amount * (1 + CC_Fee).
ImportPO(row, master) ==
    LET fee == cc_fee_lookup(master, row.Vendor_Prefix, row.Dept)
    IN [PO_Number          |-> row.PO_Number,
        PO_Date            |-> row.PO_Date,
        Vendor_Prefix      |-> row.Vendor_Prefix,
        Dept               |-> row.Dept,
        PO_Amount          |-> row.PO_Amount,
        CC_Fee             |-> fee,
        Total_PO_Amount100 |-> row.PO_Amount * (100 + fee)]

\* AdjustPO that leaves the CC fee out of the deduction-adjusted amount.
AdjustPO_NoFee(po, deductions_df) ==
    LET Total_Deductions == IF deductions_df = <<>> THEN 0
                            ELSE SumDeductions(deductions_df, po.PO_Number)
        Adjusted_PO_Amount == po.PO_Amount - Total_Deductions
    IN [PO_Number            |-> po.PO_Number,
        PO_Date              |-> po.PO_Date,
        Vendor_Prefix        |-> po.Vendor_Prefix,
        Dept                 |-> po.Dept,
        PO_Amount            |-> po.PO_Amount,
        Total_Deductions     |-> Total_Deductions,
        Original_PO_Amount   |-> po.PO_Amount,
        Adjusted_PO_Amount   |-> Adjusted_PO_Amount,
        Comparison_Amount100 |-> IF deductions_df = <<>>
                                 THEN po.Total_PO_Amount100
                                 ELSE Adjusted_PO_Amount * 100]

\* A PO row with Total_Deductions, Original_PO_Amount, Adjusted_PO_Amount and
\* Comparison_Amount, for an empty and for a non-empty ledger.
AdjustPO(po, deductions_df) ==
    LET Total_Deductions == IF deductions_df = <<>> THEN 0
                            ELSE SumDeductions(deductions_df, po.PO_Number)
        Adjusted_PO_Amount == po.PO_Amount - Total_Deductions
    IN [PO_Number            |-> po.PO_Number,
        PO_Date              |-> po.PO_Date,
        Vendor_Prefix        |-> po.Vendor_Prefix,
        Dept                 |-> po.Dept,
        PO_Amount            |-> po.PO_Amount,
        Total_Deductions     |-> Total_Deductions,
        Original_PO_Amount   |-> po.PO_Amount,
        Adjusted_PO_Amount   |-> Adjusted_PO_Amount,
        Comparison_Amount100 |-> IF deductions_df = <<>>
                                 THEN po.Total_PO_Amount100
                                 ELSE Adjusted_PO_Amount * (100 + po.CC_Fee)]

\* The filter that drops fully depleted POs; the code applies it only on the
\* branch of a non-empty ledger.
KeepPO(adjusted, deductions_df) ==
    deductions_df = <<>> \/ adjusted.Adjusted_PO_Amount > 0

AdjustedPOs(pos, deductions_df) ==
    SelectSeq([i \in 1..Len(pos) |-> AdjustPO(pos[i], deductions_df)],
              LAMBDA a: KeepPO(a, deductions_df))

(***************************************************************************)
(* render_reco: PO matching.                                               *)
(***************************************************************************)
\* window_cols: the rows of results_base with a date and a window.
window_cols(base) ==
    SelectSeq(base, LAMBDA r: r.CC_Txn_Date # NaT /\ r.Window_Start # NaT
                              /\ r.Window_End # NaT)

\* valid_mask that lets a PO without a date through.
valid_mask_NullDateMatches(w, po) ==
    \/ po.PO_Date = NaT
    \/ /\ w.Window_Start # NaT
       /\ w.Window_End # NaT
       /\ po.PO_Date >= w.Window_Start
       /\ po.PO_Date <= w.Window_End

valid_mask(w, po) ==
    /\ po.PO_Date # NaT
    /\ w.Window_Start # NaT
    /\ w.Window_End # NaT
    /\ po.PO_Date >= w.Window_Start
    /\ po.PO_Date <= w.Window_End

\* The rows of po_merge of one window row that pass valid_mask: the POs of
\* the row's vendor prefix and Dept, in PO order.
MergeWindowRow(w, pos) ==
    LET hits == SelectSeq(pos, LAMBDA po: /\ po.Vendor_Prefix = w.Vendor_Prefix
                                          /\ po.Dept = w.Dept
                                          /\ valid_mask(w, po))
    IN [i \in 1..Len(hits) |-> [key |-> GroupKey(w),
                                CC_Reference_ID |-> w.CC_Reference_ID,
                                po |-> hits[i]]]

RECURSIVE po_merge_data(_, _)
po_merge_data(windows, pos) ==
    IF windows = <<>> THEN <<>>
    ELSE MergeWindowRow(Head(windows), pos) \o po_merge_data(Tail(windows), pos)

\* drop_duplicates(subset=["PO_Number"], keep="first")
RECURSIVE DropDuplicatePOs(_, _)
DropDuplicatePOs(rows, seen) ==
    IF rows = <<>> THEN <<>>
    ELSE IF Head(rows).po.PO_Number \in seen
         THEN DropDuplicatePOs(Tail(rows), seen)
         ELSE <<Head(rows)>>
              \o DropDuplicatePOs(Tail(rows), seen \cup {Head(rows).po.PO_Number})

po_merge_unique(merged) == DropDuplicatePOs(merged, {})

RECURSIVE SumComparison(_)
SumComparison(rows) ==
    IF rows = <<>> THEN 0
    ELSE Head(rows).po.Comparison_Amount100 + SumComparison(Tail(rows))

RECURSIVE SumOriginal(_)
SumOriginal(rows) ==
    IF rows = <<>> THEN 0
    ELSE Head(rows).po.Original_PO_Amount + SumOriginal(Tail(rows))

\* One row of po_summary; all zero for a group without matched PO (the
\* fillna after the left merge of results_df with po_summary).
POSummary(unique, key) ==
    LET members == SelectSeq(unique, LAMBDA r: r.key = key)
    IN [Total_PO_Amount100     |-> SumComparison(members),
        Original_PO_Amount_Sum |-> SumOriginal(members),
        PO_Transaction_Count   |->
            Cardinality({members[i].po.PO_Number : i \in 1..Len(members)}),
        PO_Numbers             |->
            {members[i].po.PO_Number : i \in 1..Len(members)}]

(***************************************************************************)
(* render_reco: the rows of the Results tab.                               *)
(***************************************************************************)
\* Total_Deductions of a group: the ledger rows of the POs left in po_df,
\* summed per (Vendor_Prefix, Dept).
RECURSIVE SumGroupDeductions(_, _, _)
SumGroupDeductions(rows, pos, key) ==
    IF rows = <<>> THEN 0
    ELSE LET owners == SelectSeq(pos, LAMBDA po:
                           /\ po.PO_Number = Head(rows).PO_Number
                           /\ po.Vendor_Prefix = key.Vendor_Prefix
                           /\ po.Dept = key.Dept)
         IN Len(owners) * Head(rows).Deduction_Amount
            + SumGroupDeductions(Tail(rows), pos, key)

\* Flag that is red as soon as the charges reach the PO amount.
Flag_RedOnEqual(Total_CC_Amount, Total_PO_Amount100) ==
    IF Total_CC_Amount * 100 >= Total_PO_Amount100
    THEN "Red Flag" ELSE "Green Flag"

Flag(Total_CC_Amount, Total_PO_Amount100) ==
    IF Total_CC_Amount * 100 > Total_PO_Amount100
    THEN "Red Flag" ELSE "Green Flag"

ResultRow(g, summary, pos, deductions_df, master) ==
    LET fee == cc_fee_lookup(master, g.key.Vendor_Prefix, g.key.Dept)
    IN [key                    |-> g.key,
        Total_CC_Amount        |-> g.Total_CC_Amount,
        CC_Transaction_Count   |-> g.CC_Transaction_Count,
        CC_Reference_IDs       |-> g.CC_Reference_IDs,
        Total_PO_Amount100     |-> summary.Total_PO_Amount100,
        PO_Transaction_Count   |-> summary.PO_Transaction_Count,
        PO_Numbers             |-> summary.PO_Numbers,
        Original_PO_Amount_Sum |-> summary.Original_PO_Amount_Sum,
        Total_Deductions       |-> SumGroupDeductions(deductions_df, pos, g.key),
        CC_Fee                 |-> fee,
        Total_CC_Charge100     |-> summary.Original_PO_Amount_Sum * fee,
        Flag                   |-> Flag(g.Total_CC_Amount,
                                        summary.Total_PO_Amount100)]

\* The groups render_reco computes from the cached reco_df, the PO table, the
\* ledger and the grace days.
RenderResults(reco, pos_table, deductions_df, master, grace) ==
    LET base   == results_base(reco, grace)
        pos    == AdjustedPOs(pos_table, deductions_df)
        unique == po_merge_unique(po_merge_data(window_cols(base), pos))
    IN {ResultRow(g, POSummary(unique, g.key), pos, deductions_df, master) :
            g \in CCGroups(base)}

(***************************************************************************)
(* The store of saved Dept mappings (records/common_dept_mappings).        *)
(***************************************************************************)
\* A dict is a function on the set of its keys.
EmptyDict == [k \in {} |-> ""]

DictPut(d, key, value) ==
    [k \in DOMAIN d \cup {key} |-> IF k = key THEN value ELSE d[k]]

\* Series.unique() of the reference ids of some rows: first occurrences, in
\* row order.
RECURSIVE UniqueRefIds(_, _)
UniqueRefIds(rows, seen) ==
    IF rows = <<>> THEN <<>>
    ELSE IF Head(rows).CC_Reference_ID \in seen
         THEN UniqueRefIds(Tail(rows), seen)
         ELSE <<Head(rows).CC_Reference_ID>>
              \o UniqueRefIds(Tail(rows), seen \cup {Head(rows).CC_Reference_ID})

\* save_dept_mappings that writes a row for the first reference id only.
save_dept_mappings_PrimaryOnly(existing_df, ref_ids, dept) ==
    IF dept \notin {"FBA", "FBM"} \/ ref_ids = <<>> THEN existing_df
    ELSE SelectSeq(existing_df, LAMBDA m: m.CC_Reference_ID # ref_ids[1])
         \o << [CC_Reference_ID |-> ref_ids[1], Dept |-> dept] >>

\* save_dept_mappings that appends the new rows and keeps the stored rows
\* of the given reference ids.
save_dept_mappings_KeepStored(existing_df, ref_ids, dept) ==
    IF dept \notin {"FBA", "FBM"} \/ ref_ids = <<>> THEN existing_df
    ELSE existing_df
         \o [i \in 1..Len(ref_ids) |->
                [CC_Reference_ID |-> ref_ids[i], Dept |-> dept]]

\* The file save_dept_mappings leaves: the rows of the given reference ids
\* removed, one new row per given reference id appended.
save_dept_mappings(existing_df, ref_ids, dept) ==
    IF dept \notin {"FBA", "FBM"} \/ ref_ids = <<>> THEN existing_df
    ELSE SelectSeq(existing_df, LAMBDA m:
             \A i \in 1..Len(ref_ids) : m.CC_Reference_ID # ref_ids[i])
         \o [i \in 1..Len(ref_ids) |->
                [CC_Reference_ID |-> ref_ids[i], Dept |-> dept]]

\* The Dept get_dept_mappings_for_common derives for one description group
\* from the _saved_dept column of its rows (NA where nothing is saved).
\* value_counts lists departments of equal count in the order of their
\* first row.
GroupDept(group_saved) ==
    LET present == SelectSeq(group_saved, LAMBDA d: d # NA)
        saved_depts == {present[i] : i \in 1..Len(present)}
        Count(d) == Len(SelectSeq(present, LAMBDA e: e = d))
        FirstRow(d) == CHOOSE i \in 1..Len(present) :
                           /\ present[i] = d
                           /\ \A k \in 1..(i - 1) : present[k] # d
        most_common ==
            CHOOSE d \in saved_depts :
                \A e \in saved_depts \ {d} :
                    \/ Count(d) > Count(e)
                    \/ Count(d) = Count(e) /\ FirstRow(d) < FirstRow(e)
    IN IF Cardinality(saved_depts) = 1 /\ saved_depts \subseteq {"FBA", "FBM"}
       THEN present[1]
       ELSE IF saved_depts # {}
            THEN (IF /\ most_common \in {"FBA", "FBM"}
                     /\ 2 * Count(most_common) >= Len(group_saved)
                  THEN most_common ELSE NA)
            ELSE NA

\* The _saved_dept column of the rows of common_df of one description.
SavedDeptColumn(common, saved_mappings_df, n) ==
    LET group == SelectSeq(common, LAMBDA r: StripUpper(r.CC_Description) = n)
    IN [i \in 1..Len(group) |->
           RefIdToDept(saved_mappings_df, group[i].CC_Reference_ID)]

\* The saved mappings of the reference ids of common_df.
SavedMappingsOf(common, saved) ==
    SelectSeq(saved, LAMBDA m:
        \E i \in 1..Len(common) : common[i].CC_Reference_ID = m.CC_Reference_ID)

\* get_dept_mappings_for_common: normalized description -> Dept, from the
\* saved mappings of the reference ids of common_df.
get_dept_mappings_for_common(common, saved) ==
    IF common = <<>> \/ SavedMappingsOf(common, saved) = <<>> THEN EmptyDict
    ELSE [n \in {StripUpper(common[i].CC_Description) :
                   i \in {k \in 1..Len(common) :
                       GroupDept(SavedDeptColumn(common,
                           SavedMappingsOf(common, saved),
                           StripUpper(common[k].CC_Description))) # NA}} |->
             GroupDept(SavedDeptColumn(common, SavedMappingsOf(common, saved), n))]

(***************************************************************************)
(* render_reco: the Common tab.                                            *)
(***************************************************************************)
\* Amounts under 100 currency units are assigned FBM automatically.
AutoLimit == 10000

common_df(reco) ==
    SelectSeq(reco, LAMBDA r: CategoryUpper(r.Category) = "COMMON")

\* One row of display_df: a description group of working_df, the rows of
\* common_df without repeated reference ids.
agg_desc_group(working_df, norm) ==
    LET group == SelectSeq(working_df, LAMBDA r:
                     StripUpper(r.CC_Description) = norm)
    IN [Description       |-> StripDescription(group[1].CC_Description),
        Amount            |-> SumCCAmt(group),
        Transaction_Count |->
            Cardinality({group[i].CC_Reference_ID : i \in 1..Len(group)}),
        Dept              |-> "",
        Vendor_Prefix     |-> group[1].Vendor_Prefix]

assign_dept(row, existing_dept_choices, saved_dept_map) ==
    LET desc_key == StripUpper(row.Description)
    IN IF desc_key \in DOMAIN existing_dept_choices
       THEN existing_dept_choices[desc_key]
       ELSE IF desc_key \in DOMAIN saved_dept_map THEN saved_dept_map[desc_key]
       ELSE IF row.Amount < AutoLimit THEN "FBM"
       ELSE row.Dept

\* One row of display_df with its Dept and Apply columns.
DisplayRow(row, existing_dept_choices, saved_dept_map, existing_apply_flags) ==
    [Description       |-> row.Description,
     Amount            |-> row.Amount,
     Transaction_Count |-> row.Transaction_Count,
     Dept              |-> assign_dept(row, existing_dept_choices, saved_dept_map),
     Vendor_Prefix     |-> row.Vendor_Prefix,
     Apply             |->
         \/ /\ StripUpper(row.Description) \in DOMAIN existing_apply_flags
            /\ existing_apply_flags[StripUpper(row.Description)]
         \/ row.Amount < AutoLimit]

\* The keys of groupby("_norm_desc") on working_df, sorted.
GroupKeys(working_df) ==
    SelectSeq(DescOrder, LAMBDA n:
        \E i \in 1..Len(working_df) :
            StripUpper(working_df[i].CC_Description) = n)

\* display_df: one row per description group of working_df, the rows of
\* common_df without repeated reference ids.
CommonDisplay(common, existing_dept_choices, saved_dept_map, existing_apply_flags) ==
    [i \in 1..Len(GroupKeys(DropDuplicateRefs(common, {}))) |->
        DisplayRow(agg_desc_group(DropDuplicateRefs(common, {}),
                       GroupKeys(DropDuplicateRefs(common, {}))[i]),
                   existing_dept_choices, saved_dept_map, existing_apply_flags)]

\* prefix_lookup of the auto-rule: the mapping descriptions with runs of
\* white space collapsed; of Apply Selected: stripped and upper-cased only.
PrefixCandidates(maps, description_norm, collapse) ==
    LET rows == SelectSeq(maps, LAMBDA m:
                    /\ m.PREFIX # ""
                    /\ (IF collapse THEN NormalizeDescription(m.DESCRIPTION)
                        ELSE StripUpper(m.DESCRIPTION)) = description_norm)
    IN [i \in 1..Len(rows) |-> rows[i].PREFIX]

\* <<chosen_prefix, payment_terms_value>>: the first candidate with a master
\* row of the Dept, else the first candidate with the terms of its first
\* master row.
ChoosePrefix(prefix_candidates, master, search_dept) ==
    LET hits == SelectSeq(prefix_candidates, LAMBDA c:
                    MasterTermsFor(master, c, search_dept) # NaN)
    IN IF hits # <<>>
       THEN << hits[1], MasterTermsFor(master, hits[1], search_dept) >>
       ELSE IF prefix_candidates # <<>>
            THEN << prefix_candidates[1],
                    IF MasterTrim(master, prefix_candidates[1]) = <<>> THEN NaN
                    ELSE MasterTrim(master, prefix_candidates[1])[1].PAYMENT_TERMS >>
            ELSE << "", NaN >>

\* new_row: the consolidated entry of a description group.
ConsolidatedRow(reco, matching_common_rows, row, dept_value, chosen_prefix, payment_terms) ==
    LET matching_ref_ids == UniqueRefIds(matching_common_rows, {})
        existing_rows == SelectSeq(reco, LAMBDA r:
                             \E i \in 1..Len(matching_ref_ids) :
                                 r.CC_Reference_ID = matching_ref_ids[i])
        existing_reco_ids == SelectSeq(existing_rows, LAMBDA r: r.Reco_ID # NA)
        existing_batch_ids ==
            SelectSeq(existing_rows, LAMBDA r: r.Import_Batch_ID # NA)
        txn_dates == SelectSeq(matching_common_rows, LAMBDA r: r.CC_Txn_Date # NaT)
    IN [CC_Reference_ID |-> matching_ref_ids[1],
        CC_Txn_Date     |-> IF txn_dates = <<>> THEN NaT
                            ELSE txn_dates[1].CC_Txn_Date,
        CC_Description  |-> row.Description,
        CC_Amt          |-> row.Amount,
        Import_Batch_ID |-> IF existing_batch_ids = <<>> THEN NA
                            ELSE existing_batch_ids[1].Import_Batch_ID,
        Reco_ID         |-> IF existing_reco_ids = <<>> THEN NA
                            ELSE existing_reco_ids[1].Reco_ID,
        Vendor_Prefix   |-> chosen_prefix,
        Category        |-> IF dept_value = "FBA" THEN "ONLY FBA" ELSE "ONLY FBM",
        Dept            |-> dept_value,
        Payment_Terms   |-> payment_terms]

\* One description of the loop whose prefix was chosen: the Dept mapping of
\* all its reference ids is saved and their rows are replaced by one
\* consolidated row.
ProcessRow(row, matching_common_rows, matching_ref_ids, dept_value, chosen, st, auto) ==
    IF \/ dept_value \notin {"FBA", "FBM"}
       \/ matching_common_rows = <<>>
       \/ chosen[1] = ""
    THEN st
    ELSE [reco  |-> Append(
                        SelectSeq(st.reco, LAMBDA r:
                            \A i \in 1..Len(matching_ref_ids) :
                                r.CC_Reference_ID # matching_ref_ids[i]),
                        ConsolidatedRow(st.reco, matching_common_rows, row,
                            dept_value, chosen[1],
                            IF auto /\ chosen[2] = NaN THEN 0 ELSE chosen[2])),
          store |-> save_dept_mappings(st.store, matching_ref_ids, dept_value),
          flags |-> DictPut(st.flags, StripUpper(row.Description), FALSE),
          processed |-> st.processed + 1]

\* The rows of common_df of the description of a row of the table.
MatchingCommonRows(common, row) ==
    SelectSeq(common, LAMBDA r:
        StripUpper(r.CC_Description) = StripUpper(row.Description))

\* The Dept of a row in the loop: FBM for the auto-rule and under 100.
DeptValue(row, auto) ==
    IF auto \/ row.Amount < AutoLimit THEN "FBM" ELSE row.Dept

\* The loop over auto_process_rows (auto = TRUE) and over apply_rows
\* (auto = FALSE).  st holds reco_df, the store, common_apply_flags and the
\* number of processed descriptions.
RECURSIVE ProcessRows(_, _, _, _)
ProcessRows(rows, common, st, auto) ==
    IF rows = <<>> THEN st
    ELSE ProcessRows(Tail(rows), common,
             ProcessRow(Head(rows),
                        MatchingCommonRows(common, Head(rows)),
                        UniqueRefIds(MatchingCommonRows(common, Head(rows)), {}),
                        DeptValue(Head(rows), auto),
                        ChoosePrefix(
                            PrefixCandidates(mappings_df,
                                StripUpper(Head(rows).Description), auto),
                            master_df, DeptValue(Head(rows), auto)),
                        st, auto),
             auto)

\* SaveDeptSelections that saves the Dept of the ticked rows only.
RECURSIVE SaveDeptSelections_TickedOnly(_, _, _)
SaveDeptSelections_TickedOnly(rows, common, store) ==
    IF rows = <<>> THEN store
    ELSE LET row == Head(rows)
             ref_ids == UniqueRefIds(
                            SelectSeq(common, LAMBDA r:
                                StripUpper(r.CC_Description)
                                    = StripUpper(row.Description)), {})
         IN SaveDeptSelections_TickedOnly(Tail(rows), common,
                IF row.Dept \in {"FBA", "FBM"} /\ row.Apply
                THEN save_dept_mappings(store, ref_ids, row.Dept) ELSE store)

\* "Save Dept selections to file by CC_Reference_ID (even if not applied)":
\* every row of the edited table with a Dept saves it for the reference ids
\* of its description.
RECURSIVE SaveDeptSelections(_, _, _)
SaveDeptSelections(rows, common, store) ==
    IF rows = <<>> THEN store
    ELSE LET row == Head(rows)
             ref_ids == UniqueRefIds(
                            SelectSeq(common, LAMBDA r:
                                StripUpper(r.CC_Description)
                                    = StripUpper(row.Description)), {})
         IN SaveDeptSelections(Tail(rows), common,
                IF row.Dept \in {"FBA", "FBM"}
                THEN save_dept_mappings(store, ref_ids, row.Dept) ELSE store)

\* The table the form returns: display_df, with the cells of the user when
\* the form is submitted (user = <<[Dept |-> ..., Apply |-> ...]>>).
EditedTable(display, user) ==
    [i \in 1..Len(display) |->
        IF user = <<>> THEN display[i]
        ELSE [display[i] EXCEPT
                 !.Dept = user[1].Dept[StripUpper(display[i].Description)],
                 !.Apply = user[1].Apply[StripUpper(display[i].Description)]]]

\* common_dept_choices and common_apply_flags as the run leaves them.
NewChoices(edited_df) ==
    [k \in {StripUpper(edited_df[i].Description) :
              i \in {j \in 1..Len(edited_df) :
                       edited_df[j].Dept \in {"FBA", "FBM"}}} |->
        edited_df[CHOOSE i \in 1..Len(edited_df) :
                      StripUpper(edited_df[i].Description) = k].Dept]

NewFlags(edited_df) ==
    [k \in {StripUpper(edited_df[i].Description) : i \in 1..Len(edited_df)} |->
        edited_df[CHOOSE i \in 1..Len(edited_df) :
                      StripUpper(edited_df[i].Description) = k].Apply]

\* existing_dept_choices: the choices of the session, then the saved map.
ExistingDeptChoices(choices, saved_dept_map) ==
    [k \in DOMAIN choices \cup DOMAIN saved_dept_map |->
        IF k \in DOMAIN choices THEN choices[k] ELSE saved_dept_map[k]]

\* apply_rows: the ticked rows of a submitted form, FBM under 100.
ApplyRows(edited_df, user) ==
    IF user = <<>> THEN <<>>
    ELSE [i \in 1..Len(SelectSeq(edited_df, LAMBDA row: row.Apply)) |->
             IF SelectSeq(edited_df, LAMBDA row: row.Apply)[i].Amount < AutoLimit
             THEN [SelectSeq(edited_df, LAMBDA row: row.Apply)[i]
                       EXCEPT !.Dept = "FBM"]
             ELSE SelectSeq(edited_df, LAMBDA row: row.Apply)[i]]

RECURSIVE CommonTab(_, _, _, _, _)

\* st.rerun(): the script starts again on the session as it is.  Without
\* the PO table a run with mapped rows ends in the Results computation,
\* before the Common tab.
Rerun(reco, store, choices, flags) ==
    IF ResultsCrash(reco)
    THEN [reco |-> reco, store |-> store, choices |-> choices, flags |-> flags]
    ELSE CommonTab(reco, store, choices, flags, <<>>)

\* AfterApply that reruns on the store of the saved selections, without the
\* Dept mappings that the loop over apply_rows has saved.
AfterApply_KeepSelections(reco, saved, new_choices, new_flags, manual) ==
    IF manual.processed > 0
    THEN Rerun(manual.reco, saved, new_choices, manual.flags)
    ELSE [reco |-> reco, store |-> saved, choices |-> new_choices,
          flags |-> new_flags]

\* The end of a run with a submitted form: st.rerun() after a processed
\* description.
AfterApply(reco, saved, new_choices, new_flags, manual) ==
    IF manual.processed > 0
    THEN Rerun(manual.reco, manual.store, new_choices, manual.flags)
    ELSE [reco |-> reco, store |-> saved, choices |-> new_choices,
          flags |-> new_flags]

\* The form: the Dept selections are saved, the session is updated, and
\* the ticked rows are processed unless one of them lacks a Dept.
CommonForm(reco, common, saved, new_choices, new_flags, apply_rows) ==
    IF /\ apply_rows # <<>>
       /\ SelectSeq(apply_rows, LAMBDA row: row.Dept \notin {"FBA", "FBM"}) = <<>>
    THEN AfterApply(reco, saved, new_choices, new_flags,
             ProcessRows(apply_rows, common,
                         [reco |-> reco, store |-> saved, flags |-> new_flags,
                          processed |-> 0], FALSE))
    ELSE [reco |-> reco, store |-> saved, choices |-> new_choices,
          flags |-> new_flags]

\* The run after the auto-rule: st.rerun() when it processed a description,
\* the form otherwise.
AfterAuto(reco, common, store, existing_dept_choices, auto, edited_df, user) ==
    IF auto.processed > 0
    THEN Rerun(auto.reco, auto.store, existing_dept_choices, auto.flags)
    ELSE CommonForm(reco, common, SaveDeptSelections(edited_df, common, store),
                    NewChoices(edited_df), NewFlags(edited_df),
                    ApplyRows(edited_df, user))

\* The table of the tab, the auto-rule on its rows under 100 and the form.
CommonTable(reco, common, store, existing_dept_choices, flags, display, user) ==
    AfterAuto(reco, common, store, existing_dept_choices,
              ProcessRows(SelectSeq(display, LAMBDA row: row.Amount < AutoLimit),
                          common,
                          [reco |-> reco, store |-> store, flags |-> flags,
                           processed |-> 0], TRUE),
              EditedTable(display, user), user)

\* The tab with its saved_dept_map.
CommonSaved(reco, common, store, choices, flags, saved_dept_map, user) ==
    CommonTable(reco, common, store,
                ExistingDeptChoices(choices, saved_dept_map), flags,
                CommonDisplay(common,
                              ExistingDeptChoices(choices, saved_dept_map),
                              saved_dept_map, flags),
                user)

\* One run of the Common tab and the runs st.rerun() starts after it.  The
\* result is the session and the store when the script comes to rest:
\* [reco, store, choices, flags].
CommonTab(reco, store, choices, flags, user) ==
    IF common_df(reco) = <<>>
    THEN [reco |-> reco, store |-> store, choices |-> choices, flags |-> flags]
    ELSE CommonSaved(reco, common_df(reco), store, choices, flags,
                     get_dept_mappings_for_common(common_df(reco), store), user)

(***************************************************************************)
(* The input tables of the model.                                          *)
(***************************************************************************)
MasterRow(prefix, dept, category, terms, fee) ==
    [PREFIX |-> prefix, DEPT |-> dept, CATEGORY |-> category,
     PAYMENT_TERMS |-> terms, CC_FEE |-> fee]

MasterTable ==
    << MasterRow("V1", "FBA", "ONLY FBA", 0, 3),
       MasterRow("V2", "FBM", "ONLY FBM", 10, 0),
       MasterRow("V3", "FBA", "COMMON", 0, 3),
       MasterRow("V3", "FBM", "COMMON", 10, 0),
       MasterRow("V4", "FBA", "NOT AVBL", 0, 0),
       MasterRow("V6", "FBA", "COMMON", 0, 0) >>

MappingRow(description, prefix) == [DESCRIPTION |-> description, PREFIX |-> prefix]

MappingTable ==
    << MappingRow("Acme  Supply", "V1"),
       MappingRow(" acme supply ", "V1"),
       MappingRow("bolt co", "V2"),
       MappingRow("Crate Inc", "V1"),
       MappingRow("Crate Inc", "V2"),
       MappingRow("dual llc", "V3"),
       MappingRow("echo ltd", "V9"),
       MappingRow("fern gmbh", "V6"),
       MappingRow("fern gmbh", "V3"),
       MappingRow("fern gmbh", "V1") >>

BatchId == "B1"

TxnDates == {DayOf2024(3, 10), DayOf2024(3, 12)}

CCRow(ref, date, description, amt) ==
    [CC_Reference_ID |-> ref, CC_Txn_Date |-> date,
     CC_Description |-> description, CC_Amt |-> amt,
     Import_Batch_ID |-> BatchId, Reco_ID |-> NA]

\* The batches: two transactions with distinct reference ids.
SecondTxns ==
    { CCRow("R2", t, "ACME SUPPLY", 60000) : t \in TxnDates }
    \cup { CCRow("R2", t, "bolt co", 60000) : t \in TxnDates }
    \cup { CCRow("R2", DayOf2024(3, 10), "Crate Inc", 60000),
           CCRow("R2", DayOf2024(3, 10), "dual llc", 60000) }

Batches ==
    { << CCRow("R1", DayOf2024(3, 10), d1, 50000), r2 >> :
        d1 \in {"ACME SUPPLY", "Crate Inc"}, r2 \in SecondTxns }

\* The batches of the Common tab: descriptions of the COMMON vendors V3 and
\* V6, in groups under, at and above 100.00, with dates in and out of
\* order, with and without a Reco_ID.
CommonRow(ref, date, description, amt, reco_id) ==
    [CC_Reference_ID |-> ref, CC_Txn_Date |-> date,
     CC_Description |-> description, CC_Amt |-> amt,
     Import_Batch_ID |-> BatchId, Reco_ID |-> reco_id]

CommonBatches ==
    { << CommonRow("R1", DayOf2024(3, 12), "dual llc", 8750, NA),
         CommonRow("R2", DayOf2024(3, 10), "echo ltd", 5000, NA) >>,
      << CommonRow("R1", DayOf2024(3, 12), "dual llc", 4000, NA),
         CommonRow("R2", DayOf2024(3, 10), "Dual LLC ", 5000, "RC1") >>,
      << CommonRow("R1", DayOf2024(3, 10), "dual llc", 4000, NA),
         CommonRow("R2", DayOf2024(3, 12), "dual llc", 6000, NA) >>,
      << CommonRow("R1", DayOf2024(3, 10), "dual llc", 25000, "RC1"),
         CommonRow("R2", DayOf2024(3, 10), "ACME SUPPLY", 50000, NA) >>,
      << CommonRow("R1", DayOf2024(3, 10), "dual  llc", 8750, NA),
         CommonRow("R2", DayOf2024(3, 10), "dual llc", 25000, NA) >>,
      << CommonRow("R1", DayOf2024(3, 10), "fern gmbh", 8750, NA),
         CommonRow("R2", DayOf2024(3, 12), "dual llc", 25000, NA) >>,
      << CommonRow("R1", DayOf2024(3, 12), "fern gmbh", 15000, NA),
         CommonRow("R2", DayOf2024(3, 10), "fern gmbh", 5000, NA) >>,
      << CommonRow("R1", DayOf2024(3, 10), "dual llc", 25000, NA),
         CommonRow("R2", DayOf2024(3, 10), "dual llc", 25000, NA),
         CommonRow("R3", DayOf2024(3, 10), "dual llc", 25000, NA) >> }

PORow(number, date, prefix, dept, amount) ==
    [PO_Number |-> number, PO_Date |-> date, Vendor_Prefix |-> prefix,
     Dept |-> dept, PO_Amount |-> amount]

\* The POs: PO-1 of vendor V1 / FBA around the ends of the window of a
\* charge of 2024-03-10 with terms 0, or with amount 0; PO-2 of vendor
\* V2 / FBM around the ends of the window with terms 10, or of V1.
FirstPOs ==
    { PORow("PO-1", d, "V1", "FBA", 100000) :
        d \in {DayOf2024(3, 4), DayOf2024(3, 5), DayOf2024(3, 15),
               DayOf2024(3, 16)} }
    \cup { PORow("PO-1", DayOf2024(3, 10), "V1", "FBA", 0) }

SecondPOs ==
    { PORow("PO-2", d, "V2", "FBM", 100000) :
        d \in {DayOf2024(2, 23), DayOf2024(2, 24), DayOf2024(3, 10),
               DayOf2024(3, 11)} }
    \cup { PORow("PO-2", DayOf2024(3, 10), "V1", "FBM", 100000),
           PORow("PO-2", DayOf2024(3, 10), "V1", "FBA", 60000) }

\* The PO tables: one of the two POs varies, the other is the PO on the first
\* day of the window of a charge of 2024-03-10 of its vendor.
POTables ==
    { << p1, PORow("PO-2", DayOf2024(3, 10), "V2", "FBM", 100000) >> :
        p1 \in FirstPOs }
    \cup { << PORow("PO-1", DayOf2024(3, 5), "V1", "FBA", 100000), p2 >> :
             p2 \in SecondPOs }

GraceChoices == {0, 5}

DeductAmounts == {0, 40000, 60000, 70000}

\* The table files render_reco and run_reconciliation read.
AllTables == {"data/master", "data/mappings", "records/po"}

\* No save_po_deduction call of another session is under way.
NoCalls == <<>>

\* No save_dept_mappings call has been made on its own.
NoSaveCall == [ref_ids |-> <<>>, dept |-> NA]

NoOutcome ==
    [status |-> "none", PO_Number |-> "", amount |-> 0,
     available_balance |-> 0, new_balance |-> 0]

(***************************************************************************)
(* The state machine.                                                      *)
(***************************************************************************)
Init ==
    /\ master_df = MasterTable
    /\ mappings_df = MappingTable
    /\ \E t \in POTables :
           po_df = [i \in 1..Len(t) |-> ImportPO(t[i], MasterTable)]
    /\ cc_batch \in Batches
    /\ dept_mappings = <<>>
    /\ ledger = <<>>
    /\ grace_days = 5
    /\ reco_df = <<>>
    /\ results_df = {}
    /\ outcome = NoOutcome
    /\ common_dept_choices = EmptyDict
    /\ common_apply_flags = EmptyDict
    /\ errors = <<>>
    /\ deduction_inputs = <<>>
    /\ tables = AllTables
    /\ run_status = "none"
    /\ io_fault = "none"
    /\ calls = NoCalls
    /\ mapping_updates = <<>>
    /\ save_call = NoSaveCall
    /\ common_form = <<>>

\* The state before the first run of the script on a batch of the Common
\* tab.
InitCommon ==
    /\ master_df = MasterTable
    /\ mappings_df = MappingTable
    /\ po_df = << ImportPO(PORow("PO-1", DayOf2024(3, 5), "V1", "FBA", 100000),
                           MasterTable),
                  ImportPO(PORow("PO-2", DayOf2024(3, 10), "V3", "FBM", 20000),
                           MasterTable) >>
    /\ cc_batch \in CommonBatches
    /\ dept_mappings = <<>>
    /\ ledger = <<>>
    /\ grace_days = 5
    /\ reco_df = <<>>
    /\ results_df = {}
    /\ outcome = NoOutcome
    /\ common_dept_choices = EmptyDict
    /\ common_apply_flags = EmptyDict
    /\ errors = <<>>
    /\ deduction_inputs = <<>>
    /\ tables = AllTables
    /\ run_status = "none"
    /\ io_fault = "none"
    /\ calls = NoCalls
    /\ mapping_updates = <<>>
    /\ save_call = NoSaveCall
    /\ common_form = <<>>

\* ScriptEnd that computes the Results groups from the ledger as it was
\* before the handler ran.
ScriptEnd_StaleLedger(tab, deductions_df, grace) ==
    /\ reco_df' = << tab.reco >>
    /\ dept_mappings' = tab.store
    /\ common_dept_choices' = tab.choices
    /\ common_apply_flags' = tab.flags
    /\ results_df' = IF ResultsCrash(tab.reco) THEN {}
                     ELSE RenderResults(tab.reco, po_df, ledger,
                                        master_df, grace)
    /\ run_status' = IF ResultsCrash(tab.reco) THEN "UnboundLocalError"
                     ELSE "ok"

\* One run of the script of render_reco, with the runs its st.rerun() calls
\* start, on a cached frame: the Common tab, then the Results groups of the
\* frame the script comes to rest on.  user is <<>>, or the cells of the
\* form of the Common tab submitted with "Apply Selected".
ScriptEnd(tab, deductions_df, grace) ==
    /\ reco_df' = << tab.reco >>
    /\ dept_mappings' = tab.store
    /\ common_dept_choices' = tab.choices
    /\ common_apply_flags' = tab.flags
    /\ results_df' = IF ResultsCrash(tab.reco) THEN {}
                     ELSE RenderResults(tab.reco, po_df, deductions_df,
                                        master_df, grace)
    /\ run_status' = IF ResultsCrash(tab.reco) THEN "UnboundLocalError"
                     ELSE "ok"

Script(reco, deductions_df, grace, user) ==
    IF ResultsCrash(reco)
    THEN /\ reco_df' = << reco >>
         /\ results_df' = {}
         /\ run_status' = "UnboundLocalError"
         /\ UNCHANGED <<dept_mappings, common_dept_choices,
                        common_apply_flags>>
    ELSE ScriptEnd(CommonTab(reco, dept_mappings, common_dept_choices,
                             common_apply_flags, user),
                   deductions_df, grace)

\* One run of the render_reco script: run_reconciliation unless its result
\* is cached in the session, then the Results groups.  run_reconciliation
\* raises when the mapping table or the vendor master cannot be read, and
\* render_reco reports it and returns.
RenderReco ==
    /\ IF reco_df = <<>> /\ ~({"data/mappings", "data/master"} \subseteq tables)
       THEN /\ run_status' = "Unable to run reconciliation"
            /\ UNCHANGED <<reco_df, results_df, dept_mappings,
                           common_dept_choices, common_apply_flags>>
       ELSE Script(IF reco_df = <<>> THEN run_reconciliation(cc_batch)
                   ELSE reco_df[1], ledger, grace_days, <<>>)
    /\ UNCHANGED <<master_df, mappings_df, po_df, cc_batch, ledger,
                   grace_days, outcome, errors, deduction_inputs, tables,
                   io_fault, calls,
                   mapping_updates, save_call, common_form>>

\* The "Grace Days Buffer" widget: a new value and a rerun of the script.
SetGraceDays ==
    /\ reco_df # <<>>
    /\ \E g \in GraceChoices :
           /\ grace_days' = g
           /\ Script(reco_df[1], ledger, g, <<>>)
    /\ UNCHANGED <<master_df, mappings_df, po_df, cc_batch, ledger, outcome,
                   errors, deduction_inputs, tables, io_fault, calls,
                   mapping_updates, save_call, common_form>>

\* save_po_deduction that writes the row before it validates the request.
save_po_deduction_WriteFirst(po_number, amount, po_original_amount, cc_batch_id) ==
    LET available_balance ==
            get_po_available_balance(po_number, po_original_amount)[2]
        status == ValidateDeduction(amount, available_balance)
    IN /\ Len(ledger) < MaxLedger
       /\ ledger' = CombinedLedger(load_po_deductions, po_number, amount,
                                   cc_batch_id)
       /\ outcome' = [status |-> status,
                      PO_Number |-> po_number,
                      amount |-> amount,
                      available_balance |-> available_balance,
                      new_balance |-> IF status = "ok"
                                      THEN available_balance - amount ELSE NaN]

\* save_po_deduction: validation against the balance read from the ledger,
\* then the write of the ledger with the new row and its verification.  A
\* write that fails leaves the file as it was or, to_parquet writing in
\* place, a file that load_po_deductions cannot read and reports as empty;
\* a read that fails in the verification is reported as a failed
\* verification of a row that the file holds.
save_po_deduction(po_number, amount, po_original_amount, cc_batch_id) ==
    LET available_balance ==
            get_po_available_balance(po_number, po_original_amount)[2]
        status == ValidateDeduction(amount, available_balance)
        combined == CombinedLedger(load_po_deductions, po_number, amount,
                                   cc_batch_id)
        verified == \E i \in 1..Len(combined) : combined[i].PO_Number = po_number
    IN /\ status = "ok" => Len(ledger) < MaxLedger
       /\ ledger' \in IF status # "ok" THEN {ledger}
                       ELSE IF io_fault = "write" THEN {ledger, <<>>}
                       ELSE {combined}
       /\ outcome' = [status |-> IF status = "ok" /\ io_fault = "write"
                                 THEN "SaveFailed"
                                 ELSE IF status = "ok"
                                         /\ (io_fault = "verify" \/ ~verified)
                                 THEN "VerifyFailed" ELSE status,
                      PO_Number |-> po_number,
                      amount |-> amount,
                      available_balance |-> available_balance,
                      new_balance |-> IF status = "ok"
                                      THEN available_balance - amount ELSE NaN]

\* One item of the deduction form: save_po_deduction with the PO's original
\* amount; after a success the cached reconciliation is dropped and the
\* script reruns.
SubmitDeduction ==
    /\ reco_df # <<>>
    /\ \E i \in 1..Len(po_df), amount \in DeductAmounts :
           save_po_deduction(po_df[i].PO_Number, amount, po_df[i].PO_Amount,
                             Head(cc_batch).Import_Batch_ID)
    /\ deduction_inputs' = << [PO_Number |-> outcome'.PO_Number,
                               amount |-> outcome'.amount] >>
    /\ errors' = IF outcome'.status = "ok" THEN <<>>
                 ELSE << [PO_Number |-> outcome'.PO_Number,
                          reason |-> outcome'.status] >>
    /\ IF outcome'.status = "ok"
       THEN Script(run_reconciliation(cc_batch), ledger', grace_days, <<>>)
       ELSE UNCHANGED <<reco_df, results_df, dept_mappings,
                        common_dept_choices, common_apply_flags, run_status>>
    /\ io_fault' = "none"
    /\ UNCHANGED <<master_df, mappings_df, po_df, cc_batch, grace_days,
                   tables, calls,
                   mapping_updates, save_call, common_form>>

Next == RenderReco \/ SetGraceDays \/ SubmitDeduction

Spec == Init /\ [][Next]_vars

(***************************************************************************)
(* The state machine of the Common tab and of the saved Dept mappings.     *)
(***************************************************************************)
\* "Apply Selected": the form of the Common tab submitted with a Dept cell
\* and an Apply cell per description.
ApplySelected ==
    /\ reco_df # <<>>
    /\ run_status = "ok"
    /\ common_df(reco_df[1]) # <<>>
    /\ LET common == common_df(reco_df[1])
           norms == {StripUpper(common[i].CC_Description) : i \in 1..Len(common)}
       IN \E dept \in [norms -> {"", "FBA", "FBM"}], apply \in [norms -> BOOLEAN] :
              /\ common_form' = << [Dept |-> dept, Apply |-> apply] >>
              /\ Script(reco_df[1], ledger, grace_days,
                        << [Dept |-> dept, Apply |-> apply] >>)
    /\ UNCHANGED <<master_df, mappings_df, po_df, cc_batch, ledger,
                   grace_days, outcome, errors, deduction_inputs, tables,
                   io_fault, calls,
                   mapping_updates, save_call>>

\* Masters page, "Save Changes": the Dept of a saved mapping is changed.
SaveChanges ==
    /\ \E i \in 1..Len(dept_mappings), new_dept \in {"FBA", "FBM"} :
           /\ new_dept # dept_mappings[i].Dept
           /\ dept_mappings' =
                  save_dept_mappings(dept_mappings,
                      << dept_mappings[i].CC_Reference_ID >>, new_dept)
    /\ UNCHANGED <<master_df, mappings_df, po_df, cc_batch, ledger,
                   grace_days, reco_df, results_df, outcome,
                   common_dept_choices, common_apply_flags, errors,
                   deduction_inputs, tables, run_status, io_fault, calls,
                   mapping_updates, save_call, common_form>>

\* Masters page, "Delete Selected": a saved mapping is deleted.
DeleteSelected ==
    /\ \E i \in 1..Len(dept_mappings) :
           dept_mappings' =
               SelectSeq(dept_mappings, LAMBDA m:
                   m.CC_Reference_ID # dept_mappings[i].CC_Reference_ID)
    /\ UNCHANGED <<master_df, mappings_df, po_df, cc_batch, ledger,
                   grace_days, reco_df, results_df, outcome,
                   common_dept_choices, common_apply_flags, errors,
                   deduction_inputs, tables, run_status, io_fault, calls,
                   mapping_updates, save_call, common_form>>

\* A new browser session: st.session_state starts empty.
NewSession ==
    /\ reco_df # <<>>
    /\ reco_df' = <<>>
    /\ results_df' = {}
    /\ common_dept_choices' = EmptyDict
    /\ common_apply_flags' = EmptyDict
    /\ grace_days' = 5
    /\ outcome' = NoOutcome
    /\ errors' = <<>>
    /\ deduction_inputs' = <<>>
    /\ run_status' = "none"
    /\ UNCHANGED <<master_df, mappings_df, po_df, cc_batch, ledger,
                   dept_mappings, tables, io_fault, calls,
                   mapping_updates, save_call, common_form>>

NextCommon ==
    RenderReco \/ ApplySelected \/ SaveChanges \/ DeleteSelected \/ NewSession

SpecCommon == InitCommon /\ [][NextCommon]_vars

(***************************************************************************)
(* The deduction form of the Analysis tab ("Apply All Deductions").        *)
(***************************************************************************)
\* po_table: the rows of po_merge_data of the selected vendor, one per PO
\* number, as the last render shows them.
po_table(vendor) ==
    LET base == results_base(reco_df[1], grace_days)
        pos == AdjustedPOs(po_df, ledger)
        vendor_po_data == SelectSeq(po_merge_data(window_cols(base), pos),
                              LAMBDA r: r.po.Vendor_Prefix = vendor)
    IN DropDuplicatePOs(vendor_po_data, {})

\* deduction_inputs: the rows of the edited table with Deduct > 0, in the
\* order of the table.
DeductionInputs(table, deduct) ==
    LET rows == SelectSeq([i \in 1..Len(table) |-> i], LAMBDA i: deduct[i] > 0)
    IN [k \in 1..Len(rows) |->
           [PO_Number |-> table[rows[k]].po.PO_Number,
            amount    |-> deduct[rows[k]]]]

\* get_po_available_balance on the ledger as an earlier item of the same
\* submission left it.
AvailableBalanceIn(deductions_df, po_number, po_original_amount) ==
    IF deductions_df = <<>> THEN po_original_amount
    ELSE po_original_amount - SumDeductions(deductions_df, po_number)

\* The loop over deduction_inputs that stops at the first item that fails.
RECURSIVE ProcessDeductions_AbortOnError(_, _, _, _)
ProcessDeductions_AbortOnError(inputs, table, cc_batch_id, st) ==
    IF inputs = <<>> THEN st
    ELSE LET po_num == Head(inputs).PO_Number
             amount == Head(inputs).amount
             po_row == table[CHOOSE i \in 1..Len(table) :
                                 table[i].po.PO_Number = po_num].po
             status == ValidateDeduction(amount,
                           AvailableBalanceIn(st.ledger, po_num,
                                              po_row.Original_PO_Amount))
         IN IF status = "ok"
            THEN ProcessDeductions_AbortOnError(Tail(inputs), table, cc_batch_id,
                     [ledger |-> CombinedLedger(st.ledger, po_num, amount,
                                                cc_batch_id),
                      errors |-> st.errors,
                      success_count |-> st.success_count + 1])
            ELSE [ledger |-> st.ledger,
                  errors |-> Append(st.errors,
                                    [PO_Number |-> po_num, reason |-> status]),
                  success_count |-> st.success_count]

\* The loop over deduction_inputs: save_po_deduction per item inside its own
\* try / except; a ValueError adds "PO <number>: <message>" to errors.  st
\* holds the ledger, errors and success_count.
RECURSIVE ProcessDeductions(_, _, _, _)
ProcessDeductions(inputs, table, cc_batch_id, st) ==
    IF inputs = <<>> THEN st
    ELSE LET po_num == Head(inputs).PO_Number
             amount == Head(inputs).amount
             po_row == table[CHOOSE i \in 1..Len(table) :
                                 table[i].po.PO_Number = po_num].po
             status == ValidateDeduction(amount,
                           AvailableBalanceIn(st.ledger, po_num,
                                              po_row.Original_PO_Amount))
         IN ProcessDeductions(Tail(inputs), table, cc_batch_id,
                IF status = "ok"
                THEN [ledger |-> CombinedLedger(st.ledger, po_num, amount,
                                                cc_batch_id),
                      errors |-> st.errors,
                      success_count |-> st.success_count + 1]
                ELSE [ledger |-> st.ledger,
                      errors |-> Append(st.errors,
                                        [PO_Number |-> po_num, reason |-> status]),
                      success_count |-> st.success_count])

\* The POs of the deduction form: three POs of vendor V1 / FBA in the window
\* of a charge of 2024-03-10, one of them with amount 0.
InitSubmit ==
    /\ master_df = MasterTable
    /\ mappings_df = MappingTable
    /\ po_df = << ImportPO(PORow("PO-1", DayOf2024(3, 10), "V1", "FBA", 50000),
                           MasterTable),
                  ImportPO(PORow("PO-2", DayOf2024(3, 10), "V1", "FBA", 100000),
                           MasterTable),
                  ImportPO(PORow("PO-3", DayOf2024(3, 10), "V1", "FBA", 0),
                           MasterTable) >>
    /\ cc_batch \in Batches
    /\ dept_mappings = <<>>
    /\ ledger = <<>>
    /\ grace_days = 5
    /\ reco_df = <<>>
    /\ results_df = {}
    /\ outcome = NoOutcome
    /\ common_dept_choices = EmptyDict
    /\ common_apply_flags = EmptyDict
    /\ errors = <<>>
    /\ deduction_inputs = <<>>
    /\ tables = AllTables
    /\ run_status = "none"
    /\ io_fault = "none"
    /\ calls = NoCalls
    /\ mapping_updates = <<>>
    /\ save_call = NoSaveCall
    /\ common_form = <<>>

\* "Apply All Deductions": the Deduct cells of the PO table of the selected
\* vendor are submitted; after at least one success the cached
\* reconciliation is dropped and the script reruns.
SubmitDeductions ==
    /\ reco_df # <<>>
    /\ \E vendor \in {g.key.Vendor_Prefix : g \in results_df} :
           LET table == po_table(vendor)
           IN /\ table # <<>>
              /\ \E deduct \in [1..Len(table) -> DeductAmounts] :
                     LET inputs == DeductionInputs(table, deduct)
                         run == ProcessDeductions(inputs, table,
                                    Head(cc_batch).Import_Batch_ID,
                                    [ledger |-> ledger, errors |-> <<>>,
                                     success_count |-> 0])
                     IN /\ Len(run.ledger) <= MaxLedger
                        /\ deduction_inputs' = inputs
                        /\ ledger' = run.ledger
                        /\ errors' = run.errors
                        /\ IF run.success_count > 0
                           THEN Script(run_reconciliation(cc_batch), run.ledger,
                                       grace_days, <<>>)
                           ELSE UNCHANGED <<reco_df, results_df, dept_mappings,
                                            common_dept_choices,
                                            common_apply_flags, run_status>>
    /\ UNCHANGED <<master_df, mappings_df, po_df, cc_batch, grace_days,
                   outcome, tables, io_fault, calls,
                   mapping_updates, save_call, common_form>>

NextSubmit == RenderReco \/ SubmitDeductions

SpecSubmit == InitSubmit /\ [][NextSubmit]_vars

(***************************************************************************)
(* The Common tab on a mapping table that holds a description with two     *)
(* spaces: the auto-rule, which collapses the white space of the mapping   *)
(* descriptions, finds no prefix for the description and leaves its group  *)
(* to the form, whose lookup strips and upper-cases only.                  *)
(***************************************************************************)
ApplyBatches ==
    { << CommonRow("R1", DayOf2024(3, 10), "dual  llc", 8750, NA),
         CommonRow("R2", DayOf2024(3, 10), "dual llc", 25000, NA) >>,
      << CommonRow("R1", DayOf2024(3, 10), "dual  llc", 4000, NA),
         CommonRow("R2", DayOf2024(3, 12), "dual  llc", 5000, NA) >>,
      << CommonRow("R1", DayOf2024(3, 10), "dual  llc", 4000, NA),
         CommonRow("R2", DayOf2024(3, 12), "dual  llc", 6000, NA) >>,
      << CommonRow("R1", DayOf2024(3, 10), "dual  llc", 8750, NA),
         CommonRow("R2", DayOf2024(3, 10), "ACME SUPPLY", 50000, NA) >> }

InitApply ==
    /\ master_df = MasterTable
    /\ mappings_df = Append(MappingTable, MappingRow("dual  llc", "V3"))
    /\ po_df = << ImportPO(PORow("PO-1", DayOf2024(3, 5), "V1", "FBA", 100000),
                           MasterTable),
                  ImportPO(PORow("PO-2", DayOf2024(3, 10), "V3", "FBM", 20000),
                           MasterTable) >>
    /\ cc_batch \in ApplyBatches
    /\ dept_mappings = <<>>
    /\ ledger = <<>>
    /\ grace_days = 5
    /\ reco_df = <<>>
    /\ results_df = {}
    /\ outcome = NoOutcome
    /\ common_dept_choices = EmptyDict
    /\ common_apply_flags = EmptyDict
    /\ errors = <<>>
    /\ deduction_inputs = <<>>
    /\ tables = AllTables
    /\ run_status = "none"
    /\ io_fault = "none"
    /\ calls = NoCalls
    /\ mapping_updates = <<>>
    /\ save_call = NoSaveCall
    /\ common_form = <<>>

NextApply == RenderReco \/ ApplySelected \/ NewSession

SpecApply == InitApply /\ [][NextApply]_vars

(***************************************************************************)
(* save_dept_mappings called on the file of saved Dept mappings.           *)
(***************************************************************************)
RefIds == {"R1", "R2", "R3"}

\* The lists of reference ids of the callers: stripped and without
\* repetition (.str.strip().unique().tolist(), or one id), or empty.
RefIdLists ==
    { <<>> } \cup { <<a>> : a \in RefIds }
    \cup { ids \in RefIds \X RefIds : ids[1] # ids[2] }

\* The values of a Dept cell.
DeptCells == {"FBA", "FBM", "", "COMMON"}

CallSaveDeptMappings ==
    /\ \E ref_ids \in RefIdLists, dept \in DeptCells :
           /\ save_call' = [ref_ids |-> ref_ids, dept |-> dept]
           /\ dept_mappings' = save_dept_mappings(dept_mappings, ref_ids, dept)
    /\ UNCHANGED <<master_df, mappings_df, po_df, cc_batch, ledger,
                   grace_days, reco_df, results_df, outcome,
                   common_dept_choices, common_apply_flags, errors,
                   deduction_inputs, tables, run_status, io_fault, calls,
                   mapping_updates, common_form>>

InitStore ==
    /\ master_df = MasterTable
    /\ mappings_df = MappingTable
    /\ po_df = <<>>
    /\ cc_batch \in CommonBatches
    /\ dept_mappings = <<>>
    /\ ledger = <<>>
    /\ grace_days = 5
    /\ reco_df = <<>>
    /\ results_df = {}
    /\ outcome = NoOutcome
    /\ common_dept_choices = EmptyDict
    /\ common_apply_flags = EmptyDict
    /\ errors = <<>>
    /\ deduction_inputs = <<>>
    /\ tables = AllTables
    /\ run_status = "none"
    /\ io_fault = "none"
    /\ calls = NoCalls
    /\ mapping_updates = <<>>
    /\ save_call = NoSaveCall
    /\ common_form = <<>>

NextStore == CallSaveDeptMappings \/ DeleteSelected

SpecStore == InitStore /\ [][NextStore]_vars

(***************************************************************************)
(* save_po_deduction on a storage that fails.                              *)
(***************************************************************************)
\* The storage turns faulty: the next write of the ledger, or the next read
\* of it in the verification, raises.
StorageFault ==
    /\ io_fault = "none"
    /\ io_fault' \in {"write", "verify"}
    /\ UNCHANGED <<master_df, mappings_df, po_df, cc_batch, dept_mappings,
                   ledger, grace_days, reco_df, results_df, outcome,
                   common_dept_choices, common_apply_flags, errors,
                   deduction_inputs, tables, run_status, calls,
                   mapping_updates, save_call, common_form>>

NextFaults == RenderReco \/ SubmitDeduction \/ StorageFault

SpecFaults == InitSubmit /\ [][NextFaults]_vars

(***************************************************************************)
(* render_reco: the Unmapped tab.  The form assigns a vendor of the master *)
(* to the groups of unmapped rows of one description.                      *)
(***************************************************************************)
unmapped_df(reco) ==
    SelectSeq(reco, LAMBDA r: CategoryUpper(r.Category) = "UNMAPPED")

\* grouped_records: the keys of the groups of unmapped rows, sorted.
UnmappedKeys(reco) ==
    SelectSeq(LowerOrder, LAMBDA k:
        \E i \in 1..Len(unmapped_df(reco)) :
            StripLower(unmapped_df(reco)[i].CC_Description) = k)

\* display_description: the stripped description of the first row of a
\* group.
DisplayDescription(reco, key) ==
    StripDescription(
        SelectSeq(unmapped_df(reco), LAMBDA r:
            StripLower(r.CC_Description) = key)[1].CC_Description)

\* The rows of reco_df of one applied group get the vendor of the chosen
\* master row; a COMMON vendor with a Dept becomes ONLY <Dept>.
AnnotateRow(r, key, vendor_details) ==
    IF StripLower(r.CC_Description) = key /\ CategoryUpper(r.Category) = "UNMAPPED"
    THEN [r EXCEPT
             !.Category = IF /\ vendor_details.CATEGORY = "COMMON"
                             /\ vendor_details.DEPT \in {"FBA", "FBM"}
                          THEN IF vendor_details.DEPT = "FBA"
                               THEN "ONLY FBA" ELSE "ONLY FBM"
                          ELSE vendor_details.CATEGORY,
             !.Dept = vendor_details.DEPT,
             !.Vendor_Prefix = vendor_details.PREFIX,
             !.Payment_Terms = vendor_details.PAYMENT_TERMS]
    ELSE r

\* One update of the mapping table: the rows of the description get the
\* prefix, or a row is added when there is none.
UpdateMapping(maps, update) ==
    IF \E i \in 1..Len(maps) :
           StripLower(maps[i].DESCRIPTION) = StripLower(update.description)
    THEN [i \in 1..Len(maps) |->
             IF StripLower(maps[i].DESCRIPTION) = StripLower(update.description)
             THEN [maps[i] EXCEPT !.PREFIX = update.prefix]
             ELSE maps[i]]
    ELSE Append(maps, MappingRow(update.description, update.prefix))

RECURSIVE UpdateMappings(_, _)
UpdateMappings(maps, updates) ==
    IF updates = <<>> THEN maps
    ELSE UpdateMappings(UpdateMapping(maps, Head(updates)), Tail(updates))

\* The loop over the rows of the submitted form: vendor[k] is 0 for
\* "Select a vendor" or the number of a row of the master.  st holds
\* reco_df and mapping_updates.
RECURSIVE ApplyVendors(_, _, _, _)
ApplyVendors(keys, vendor, apply, st) ==
    IF keys = <<>> THEN st
    ELSE ApplyVendors(Tail(keys), vendor, apply,
             IF apply[Head(keys)] /\ vendor[Head(keys)] # 0
             THEN [reco |-> [i \in 1..Len(st.reco) |->
                                AnnotateRow(st.reco[i], Head(keys),
                                            master_df[vendor[Head(keys)]])],
                   updates |-> Append(st.updates,
                       [description |-> DisplayDescription(st.reco, Head(keys)),
                        prefix |-> master_df[vendor[Head(keys)]].PREFIX])]
             ELSE st)

\* The vendor columns of the form: per group "Select a vendor" (0) or a row
\* of the master.
VendorChoices(keys) ==
    [ {keys[i] : i \in 1..Len(keys)} -> 0..Len(master_df) ]

ApplyChoices(keys) ==
    [ {keys[i] : i \in 1..Len(keys)} -> BOOLEAN ]

\* "Apply Selected" of the Unmapped tab: the checked groups with a vendor
\* are annotated in reco_df, the mapping table is updated and written, and
\* the script runs again; with nothing to update nothing is written.  The
\* batches of this tab hold no COMMON rows and the annotation creates none,
\* so the Common tab of the run leaves its state as it is.
AssignVendor ==
    /\ reco_df # <<>>
    /\ run_status = "ok"
    /\ UnmappedKeys(reco_df[1]) # <<>>
    /\ \E vendor \in VendorChoices(UnmappedKeys(reco_df[1])),
          apply \in ApplyChoices(UnmappedKeys(reco_df[1])) :
           LET st == ApplyVendors(UnmappedKeys(reco_df[1]), vendor, apply,
                                  [reco |-> reco_df[1], updates |-> <<>>])
           IN /\ mapping_updates' = st.updates
              /\ mappings_df' = UpdateMappings(mappings_df, st.updates)
              /\ Script(st.reco, ledger, grace_days, <<>>)
    /\ UNCHANGED <<master_df, po_df, cc_batch, ledger, grace_days, outcome,
                   errors, deduction_inputs, tables, io_fault, calls,
                   save_call, common_form>>

\* The batches of the Unmapped tab: descriptions without a mapping row
\* ("zeta corp", "Zeta  Corp"), descriptions mapped to the prefix V9 that
\* the master does not hold ("echo ltd", "echo  ltd"), next to a mapped one.
UnmappedBatches ==
    { << CCRow("R1", DayOf2024(3, 10), "zeta corp", 50000),
         CCRow("R2", DayOf2024(3, 10), "Zeta  Corp", 60000) >>,
      << CCRow("R1", DayOf2024(3, 10), "zeta corp", 50000),
         CCRow("R2", DayOf2024(3, 12), "zeta corp", 60000) >>,
      << CCRow("R1", DayOf2024(3, 10), "zeta corp", 50000),
         CCRow("R2", DayOf2024(3, 10), "ACME SUPPLY", 60000) >>,
      << CCRow("R1", DayOf2024(3, 10), "echo ltd", 50000),
         CCRow("R2", DayOf2024(3, 10), "bolt co", 60000) >>,
      << CCRow("R1", DayOf2024(3, 10), "echo  ltd", 50000),
         CCRow("R2", DayOf2024(3, 10), "ACME SUPPLY", 60000) >> }

InitUnmapped ==
    /\ master_df = MasterTable
    /\ mappings_df = MappingTable
    /\ po_df = << ImportPO(PORow("PO-1", DayOf2024(3, 5), "V1", "FBA", 100000),
                           MasterTable),
                  ImportPO(PORow("PO-2", DayOf2024(3, 10), "V2", "FBM", 100000),
                           MasterTable) >>
    /\ cc_batch \in UnmappedBatches
    /\ dept_mappings = <<>>
    /\ ledger = <<>>
    /\ grace_days = 5
    /\ reco_df = <<>>
    /\ results_df = {}
    /\ outcome = NoOutcome
    /\ common_dept_choices = EmptyDict
    /\ common_apply_flags = EmptyDict
    /\ errors = <<>>
    /\ deduction_inputs = <<>>
    /\ tables = AllTables
    /\ run_status = "none"
    /\ io_fault = "none"
    /\ calls = NoCalls
    /\ mapping_updates = <<>>
    /\ save_call = NoSaveCall
    /\ common_form = <<>>

NextUnmapped == RenderReco \/ AssignVendor \/ NewSession

SpecUnmapped == InitUnmapped /\ [][NextUnmapped]_vars

(***************************************************************************)
(* save_po_deduction called from two sessions at once.  Streamlit runs the *)
(* script of each session in a thread of its own, and save_po_deduction    *)
(* takes no lock: its reads and its write of records/po_deductions are     *)
(* separate steps between which the other session may run.                 *)
(***************************************************************************)
Callers == {1, 2}

IdleCall ==
    [pc |-> "idle", po_number |-> "", amount |-> 0, po_original_amount |-> 0,
     available_balance |-> 0, existing |-> <<>>, status |-> "none"]

\* The callers inside save_po_deduction.
InFlight == {c \in Callers : calls[c].pc \in {"balance", "existing", "write",
                                               "verify"}}

InitConcurrent ==
    /\ master_df = MasterTable
    /\ mappings_df = MappingTable
    /\ po_df = << ImportPO(PORow("PO-1", DayOf2024(3, 5), "V1", "FBA", 100000),
                           MasterTable),
                  ImportPO(PORow("PO-2", DayOf2024(3, 10), "V2", "FBM", 100000),
                           MasterTable) >>
    /\ cc_batch \in Batches
    /\ dept_mappings = <<>>
    /\ ledger = <<>>
    /\ grace_days = 5
    /\ reco_df = <<>>
    /\ results_df = {}
    /\ outcome = NoOutcome
    /\ common_dept_choices = EmptyDict
    /\ common_apply_flags = EmptyDict
    /\ errors = <<>>
    /\ deduction_inputs = <<>>
    /\ tables = AllTables
    /\ run_status = "none"
    /\ io_fault = "none"
    /\ calls = [c \in Callers |-> IdleCall]
    /\ mapping_updates = <<>>
    /\ save_call = NoSaveCall
    /\ common_form = <<>>

\* A session calls save_po_deduction: the amount is validated first.
CallSave(c) ==
    /\ calls[c].pc \in {"idle", "done"}
    /\ Len(ledger) + Cardinality(InFlight) < MaxLedger
    /\ \E i \in 1..Len(po_df), amount \in DeductAmounts :
           calls' = [calls EXCEPT ![c] =
                        [pc |-> IF amount <= 0 THEN "done" ELSE "balance",
                         po_number |-> po_df[i].PO_Number,
                         amount |-> amount,
                         po_original_amount |-> po_df[i].PO_Amount,
                         available_balance |-> 0,
                         existing |-> <<>>,
                         status |-> IF amount <= 0 THEN "InvalidAmount"
                                    ELSE "none"]]
    /\ UNCHANGED ledger

\* get_po_available_balance reads the ledger; the request is checked
\* against the balance.
ReadBalance(c) ==
    /\ calls[c].pc = "balance"
    /\ LET available_balance ==
               get_po_available_balance(calls[c].po_number,
                                        calls[c].po_original_amount)[2]
           status == ValidateDeduction(calls[c].amount, available_balance)
       IN calls' = [calls EXCEPT
                       ![c].available_balance = available_balance,
                       ![c].status = IF status = "ok" THEN "none" ELSE status,
                       ![c].pc = IF status = "ok" THEN "existing" ELSE "done"]
    /\ UNCHANGED ledger

\* existing = load_po_deductions()
ReadExisting(c) ==
    /\ calls[c].pc = "existing"
    /\ calls' = [calls EXCEPT ![c].existing = load_po_deductions,
                              ![c].pc = "write"]
    /\ UNCHANGED ledger

\* write_parquet(combined): the file is replaced by existing + the new row.
WriteCombined(c) ==
    /\ calls[c].pc = "write"
    /\ ledger' = CombinedLedger(calls[c].existing, calls[c].po_number,
                                calls[c].amount, Head(cc_batch).Import_Batch_ID)
    /\ calls' = [calls EXCEPT ![c].pc = "verify"]

\* The verification reads the ledger again and looks for the PO number; the
\* call returns available_balance - amount.
VerifySave(c) ==
    /\ calls[c].pc = "verify"
    /\ calls' = [calls EXCEPT
                    ![c].status =
                        IF \E i \in 1..Len(ledger) :
                               ledger[i].PO_Number = calls[c].po_number
                        THEN "ok" ELSE "VerifyFailed",
                    ![c].pc = "done"]
    /\ UNCHANGED ledger

NextConcurrent ==
    /\ \E c \in Callers :
           \/ CallSave(c)
           \/ ReadBalance(c)
           \/ ReadExisting(c)
           \/ WriteCombined(c)
           \/ VerifySave(c)
    /\ UNCHANGED <<master_df, mappings_df, po_df, cc_batch, dept_mappings,
                   grace_days, reco_df, results_df, outcome,
                   common_dept_choices, common_apply_flags, errors,
                   deduction_inputs, tables, run_status, io_fault,
                   mapping_updates, save_call, common_form>>

SpecConcurrent == InitConcurrent /\ [][NextConcurrent]_vars

(***************************************************************************)
(* The state machine of a session whose table files may be missing.        *)
(***************************************************************************)
\* Any of the three tables may be missing when the session starts.
InitTables ==
    /\ master_df = MasterTable
    /\ mappings_df = MappingTable
    /\ po_df = << ImportPO(PORow("PO-1", DayOf2024(3, 5), "V1", "FBA", 100000),
                           MasterTable),
                  ImportPO(PORow("PO-2", DayOf2024(3, 10), "V3", "FBM", 20000),
                           MasterTable) >>
    /\ cc_batch \in Batches \cup CommonBatches
    /\ dept_mappings = <<>>
    /\ ledger = <<>>
    /\ grace_days = 5
    /\ reco_df = <<>>
    /\ results_df = {}
    /\ outcome = NoOutcome
    /\ common_dept_choices = EmptyDict
    /\ common_apply_flags = EmptyDict
    /\ errors = <<>>
    /\ deduction_inputs = <<>>
    /\ tables \in SUBSET AllTables
    /\ run_status = "none"
    /\ io_fault = "none"
    /\ calls = NoCalls
    /\ mapping_updates = <<>>
    /\ save_call = NoSaveCall
    /\ common_form = <<>>

NextTables == RenderReco \/ ApplySelected \/ NewSession

SpecTables == InitTables /\ [][NextTables]_vars

(***************************************************************************)
(* The state machine of the Results tab on tables with missing dates.      *)
(***************************************************************************)
\* Batches and PO tables in which a date may be missing or unparsable
\* (None in the table, NaT after pd.to_datetime(errors="coerce")).
DateOrNaT(date) == {date, NaT}

DatedBatches ==
    { << CCRow("R1", d1, "ACME SUPPLY", 50000), CCRow("R2", d2, desc, 60000) >> :
        d1 \in DateOrNaT(DayOf2024(3, 10)), d2 \in DateOrNaT(DayOf2024(3, 10)),
        desc \in {"ACME SUPPLY", "bolt co"} }

DatedPOTables ==
    { << PORow("PO-1", p1, "V1", "FBA", 100000),
         PORow("PO-2", p2, v.prefix, v.dept, 100000) >> :
        p1 \in DateOrNaT(DayOf2024(3, 5)), p2 \in DateOrNaT(DayOf2024(3, 10)),
        v \in {[prefix |-> "V1", dept |-> "FBA"],
               [prefix |-> "V2", dept |-> "FBM"]} }

InitDates ==
    /\ master_df = MasterTable
    /\ mappings_df = MappingTable
    /\ \E t \in DatedPOTables :
           po_df = [i \in 1..Len(t) |-> ImportPO(t[i], MasterTable)]
    /\ cc_batch \in DatedBatches
    /\ dept_mappings = <<>>
    /\ ledger = <<>>
    /\ grace_days = 5
    /\ reco_df = <<>>
    /\ results_df = {}
    /\ outcome = NoOutcome
    /\ common_dept_choices = EmptyDict
    /\ common_apply_flags = EmptyDict
    /\ errors = <<>>
    /\ deduction_inputs = <<>>
    /\ tables = AllTables
    /\ run_status = "none"
    /\ io_fault = "none"
    /\ calls = NoCalls
    /\ mapping_updates = <<>>
    /\ save_call = NoSaveCall
    /\ common_form = <<>>

SpecDates == InitDates /\ [][Next]_vars

(***************************************************************************)
(* Helpers of the properties.                                              *)
(***************************************************************************)
Rendered == reco_df # <<>>

PONumbers == {po_df[i].PO_Number : i \in 1..Len(po_df)}

PORowOf(po_number) ==
    po_df[CHOOSE i \in 1..Len(po_df) : po_df[i].PO_Number = po_number]

Called == outcome.status # "none"

Rejected == outcome.status \in {"InvalidAmount", "InsufficientBalance",
                                "DepletedPO", "SaveFailed", "VerifyFailed"}

LedgerRowsOf(po_number) ==
    SelectSeq(ledger, LAMBDA d: d.PO_Number = po_number)

(***************************************************************************)
(* C1: for every PO and after any sequence of save_po_deduction calls,     *)
(* accepted or rejected, the deductions of the PO in the ledger sum to at  *)
(* most its base amount, and get_po_available_balance reports a balance    *)
(* that is not negative.                                                   *)
(***************************************************************************)
C1_BalanceNeverNegative ==
    \A n \in PONumbers :
        /\ SumDeductions(ledger, n) <= PORowOf(n).PO_Amount
        /\ get_po_available_balance(n, PORowOf(n).PO_Amount)[2] >= 0

\* A PO consumed down to balance 0 by two deductions, after which a further
\* request was turned down.
C1_Witness ==
    /\ Rejected
    /\ outcome.amount > 0
    /\ Len(LedgerRowsOf(outcome.PO_Number)) = 2
    /\ SumDeductions(ledger, outcome.PO_Number)
           = PORowOf(outcome.PO_Number).PO_Amount

(***************************************************************************)
(* C2: a save_po_deduction call with amount <= 0, or with an amount above  *)
(* the PO's available balance, ends with an error and leaves the ledger as *)
(* it was, so that the balance read after the call is the balance read     *)
(* before it.                                                              *)
(***************************************************************************)
C2_RejectedLeavesLedger ==
    /\ [](Called /\ (outcome.amount <= 0
                     \/ outcome.amount > outcome.available_balance)
            => Rejected)
    /\ [][(outcome'.status # "none"
           /\ (outcome'.amount <= 0
               \/ outcome'.amount > outcome'.available_balance))
          => /\ ledger' = ledger
             /\ get_po_available_balance(outcome.PO_Number,
                    PORowOf(outcome.PO_Number).PO_Amount)'[2]
                    = outcome'.available_balance]_vars

\* A request above the balance, and one with amount 0, turned down while the
\* ledger holds rows.
C2_Witness ==
    /\ Rejected
    /\ ledger # <<>>
    /\ outcome.amount > outcome.available_balance
    /\ outcome.available_balance > 0

(***************************************************************************)
(* C3: a save_po_deduction call with a positive amount on a PO whose       *)
(* available balance is <= 0 is rejected with the depleted-PO error, which *)
(* differs from the insufficient-balance error; so after a PO of base 1000 *)
(* has accepted 400 and 600, every further deduction is rejected as        *)
(* DepletedPO.                                                             *)
(***************************************************************************)
C3_DepletedReported ==
    (Called /\ outcome.amount > 0 /\ outcome.available_balance <= 0)
        => outcome.status = "DepletedPO"

(***************************************************************************)
(* C4: the ledger is append-only.  An accepted save_po_deduction call      *)
(* (0 < amount <= balance) adds exactly one row with the given PO number,  *)
(* amount and batch id after the stored rows, which stay as they were, and *)
(* returns balance - amount, the balance get_po_available_balance reports  *)
(* afterwards.                                                             *)
(***************************************************************************)
C4_AppendOnly ==
    /\ [](Called /\ outcome.amount > 0
            /\ outcome.amount <= outcome.available_balance
            => /\ outcome.status = "ok"
               /\ ledger # <<>>
               /\ ledger[Len(ledger)]
                      = [PO_Number |-> outcome.PO_Number,
                         Deduction_Amount |-> outcome.amount,
                         CC_Batch_ID |-> Head(cc_batch).Import_Batch_ID]
               /\ outcome.new_balance
                      = outcome.available_balance - outcome.amount
               /\ get_po_available_balance(outcome.PO_Number,
                      PORowOf(outcome.PO_Number).PO_Amount)[2]
                      = outcome.new_balance)
    /\ [][ledger' # ledger
          => /\ outcome'.status = "ok"
             /\ Len(ledger') = Len(ledger) + 1
             /\ SubSeq(ledger', 1, Len(ledger)) = ledger]_vars

\* A second accepted deduction, on a ledger that already holds a row of
\* another PO.
C4_Witness ==
    /\ outcome.status = "ok"
    /\ Len(ledger) = 2
    /\ ledger[1].PO_Number # ledger[2].PO_Number

(***************************************************************************)
(* C5: every mapped transaction has its own window, computed from its own  *)
(* date before grouping: window_start = txn_date - payment_terms - grace   *)
(* and window_end = txn_date when payment_terms > 0, txn_date + grace      *)
(* otherwise.  With grace 5 and date 2024-03-10, terms 0 give              *)
(* [2024-03-05, 2024-03-15] and terms 10 give [2024-02-24, 2024-03-10].    *)
(***************************************************************************)
C5_WindowRule ==
    Rendered =>
        LET base == results_base(reco_df[1], grace_days)
        IN \A i \in 1..Len(base) :
            LET w == base[i] IN
            /\ w.Window_Start = w.CC_Txn_Date - w.Payment_Terms - grace_days
            /\ w.Payment_Terms > 0 => w.Window_End = w.CC_Txn_Date
            /\ w.Payment_Terms <= 0 => w.Window_End = w.CC_Txn_Date + grace_days
            /\ (grace_days = 5 /\ w.CC_Txn_Date = DayOf2024(3, 10)
                    /\ w.Payment_Terms = 0)
                  => /\ w.Window_Start = DayOf2024(3, 5)
                     /\ w.Window_End = DayOf2024(3, 15)
            /\ (grace_days = 5 /\ w.CC_Txn_Date = DayOf2024(3, 10)
                    /\ w.Payment_Terms = 10)
                  => /\ w.Window_Start = DayOf2024(2, 24)
                     /\ w.Window_End = DayOf2024(3, 10)

\* A render with grace 5 of a batch with a charge of 2024-03-10 on terms 10,
\* one on terms 0, and a charge of the same vendor on another day.
C5_Witness ==
    /\ Rendered
    /\ grace_days = 5
    /\ LET base == results_base(reco_df[1], grace_days)
       IN /\ \E i \in 1..Len(base) :
                 /\ base[i].CC_Txn_Date = DayOf2024(3, 10)
                 /\ base[i].Payment_Terms = 10
          /\ \E i, j \in 1..Len(base) :
                 /\ base[i].Payment_Terms = 0
                 /\ base[j].Payment_Terms = 0
                 /\ base[i].Vendor_Prefix = base[j].Vendor_Prefix
                 /\ base[i].Window_End # base[j].Window_End

(***************************************************************************)
(* Helpers of the matching properties.                                     *)
(***************************************************************************)
\* The rows of results_base that carry the key of a group: the
\* transactions of the group with their windows.
GroupRows(g) ==
    SelectSeq(results_base(reco_df[1], grace_days),
              LAMBDA r: GroupKey(r) = g.key)

InWindow(po, w) ==
    /\ po.PO_Date # NaT
    /\ w.Window_Start # NaT
    /\ po.PO_Date >= w.Window_Start
    /\ po.PO_Date <= w.Window_End

AvailableBalance(po_number) ==
    get_po_available_balance(po_number, PORowOf(po_number).PO_Amount)[2]

\* A PO matches a group: same vendor prefix and Dept, and its date in the
\* window of a transaction of the group.
MatchesGroup(po_number, g) ==
    LET po == PORowOf(po_number)
        rows == GroupRows(g)
    IN /\ po.Vendor_Prefix = g.key.Vendor_Prefix
       /\ po.Dept = g.key.Dept
       /\ \E i \in 1..Len(rows) : InWindow(po, rows[i])

\* (base_amount - deductions) x (1 + cc_fee_rate) of a PO, times 100.
ExpectedPOAmount100(po_number) ==
    LET po == PORowOf(po_number)
    IN (po.PO_Amount - SumDeductions(ledger, po_number)) * (100 + po.CC_Fee)

RECURSIVE SumExpectedPOAmount100(_)
SumExpectedPOAmount100(numbers) ==
    IF numbers = {} THEN 0
    ELSE LET n == CHOOSE x \in numbers : TRUE
         IN ExpectedPOAmount100(n) + SumExpectedPOAmount100(numbers \ {n})

BatchAmount(ref) ==
    cc_batch[CHOOSE i \in 1..Len(cc_batch) :
                 cc_batch[i].CC_Reference_ID = ref].CC_Amt

RECURSIVE SumBatchAmount(_)
SumBatchAmount(refs) ==
    IF refs = {} THEN 0
    ELSE LET r == CHOOSE x \in refs : TRUE
         IN BatchAmount(r) + SumBatchAmount(refs \ {r})

MappedRefs ==
    LET mapped == mapped_df(reco_df[1])
    IN {mapped[i].CC_Reference_ID : i \in 1..Len(mapped)}

(***************************************************************************)
(* C6: a PO contributes to total_po_amount and po_count of a group only if *)
(* its vendor prefix and Dept are the group's, its available balance (base *)
(* amount minus its ledger deductions) is > 0 and its date lies within the *)
(* window, ends included, of a transaction of the group; a PO whose        *)
(* balance is <= 0 is in the match of no group.                            *)
(***************************************************************************)
C6_MatchedOnlyIfEligible ==
    \A g \in results_df : \A n \in g.PO_Numbers :
        /\ MatchesGroup(n, g)
        /\ AvailableBalance(n) > 0

C8_EachTransactionOnce ==
    Rendered =>
        /\ \A g \in results_df :
               /\ g.Total_CC_Amount = SumBatchAmount(g.CC_Reference_IDs)
               /\ g.CC_Transaction_Count = Cardinality(g.CC_Reference_IDs)
               /\ \A ref \in g.CC_Reference_IDs :
                      \E i \in 1..Len(GroupRows(g)) :
                          GroupRows(g)[i].CC_Reference_ID = ref
        /\ \A g, h \in results_df :
               g.key # h.key => g.CC_Reference_IDs \cap h.CC_Reference_IDs = {}
        /\ UNION {g.CC_Reference_IDs : g \in results_df} = MappedRefs

\* A group that counts two transactions, one of which has two rows in the
\* group and the other a second row in another group.
C8_Witness ==
    /\ Rendered
    /\ \E g \in results_df :
           /\ g.CC_Transaction_Count = 2
           /\ Len(GroupRows(g)) = 3
           /\ \E i \in 1..Len(GroupRows(g)) :
                  \E r \in {results_base(reco_df[1], grace_days)[j] :
                              j \in 1..Len(results_base(reco_df[1], grace_days))} :
                      /\ r.CC_Reference_ID = GroupRows(g)[i].CC_Reference_ID
                      /\ GroupKey(r) # g.key

(***************************************************************************)
(* C9: for every group, total_po_amount is the sum over the distinct       *)
(* matched POs of (base_amount - the PO's ledger deductions) x             *)
(* (1 + the PO's cc_fee_rate), with an empty and with a non-empty ledger.  *)
(***************************************************************************)
C9_TotalPOAmount ==
    \A g \in results_df :
        /\ g.Total_PO_Amount100 = SumExpectedPOAmount100(g.PO_Numbers)
        /\ g.PO_Transaction_Count = Cardinality(g.PO_Numbers)

\* A group with two matched POs of a vendor with a fee, one of them with a
\* deduction in the ledger.
C9_Witness ==
    /\ ledger # <<>>
    /\ \E g \in results_df :
           /\ Cardinality(g.PO_Numbers) = 2
           /\ g.CC_Fee > 0
           /\ \E n \in g.PO_Numbers : SumDeductions(ledger, n) > 0

(***************************************************************************)
(* C10: total_cc_fee_charge is computed from the original base amounts:    *)
(* an accepted deduction against a PO matched in a group leaves the        *)
(* total_cc_fee_charge of that group unchanged at the next reconciliation. *)
(***************************************************************************)
C10_FeeChargeUnchanged ==
    [][ledger' # ledger
       => \A g \in results_df :
              outcome'.PO_Number \in g.PO_Numbers
                  => \E h \in results_df' :
                         /\ h.key = g.key
                         /\ h.Total_CC_Charge100 = g.Total_CC_Charge100]_vars

(***************************************************************************)
(* C11: the flag of every group is red exactly when total_cc_amount >      *)
(* total_po_amount and green otherwise: equal totals give green, a group   *)
(* with positive charges and no matched PO is red; 500 against 450 is red  *)
(* and 500 against 550 is green.                                           *)
(***************************************************************************)
C11_FlagRule ==
    /\ \A g \in results_df :
           /\ g.Flag \in {"Red Flag", "Green Flag"}
           /\ g.Flag = "Red Flag"
                  <=> g.Total_CC_Amount * 100 > g.Total_PO_Amount100
           /\ (g.Total_CC_Amount * 100 = g.Total_PO_Amount100)
                  => g.Flag = "Green Flag"
           /\ (g.PO_Numbers = {} /\ g.Total_CC_Amount > 0)
                  => g.Flag = "Red Flag"
    /\ Flag(50000, 45000 * 100) = "Red Flag"
    /\ Flag(50000, 55000 * 100) = "Green Flag"

\* A render with a group whose charges equal its PO amount after a
\* deduction, next to a group with charges and no matched PO.
C11_Witness ==
    /\ \E g \in results_df :
           /\ g.PO_Numbers # {}
           /\ g.Total_CC_Amount * 100 = g.Total_PO_Amount100
    /\ \E g \in results_df :
           /\ g.PO_Numbers = {}
           /\ g.Total_CC_Amount > 0

(***************************************************************************)
(* C12: in the frame run_reconciliation returns, every reference id of the *)
(* batch has one category: no reference id has rows with two different     *)
(* Category values, also when its description maps to several prefixes.    *)
(***************************************************************************)
C12_OneCategoryPerRef ==
    Rendered =>
        \A i, j \in 1..Len(reco_df[1]) :
            reco_df[1][i].CC_Reference_ID = reco_df[1][j].CC_Reference_ID
                => reco_df[1][i].Category = reco_df[1][j].Category

(***************************************************************************)
(* Helpers of the properties of the saved Dept mappings.                   *)
(***************************************************************************)
\* The category the vendor master gives the prefix of a row.
MasterCategory(prefix) ==
    IF MasterTrim(master_df, prefix) = <<>> THEN NA
    ELSE MasterTrim(master_df, prefix)[1].CATEGORY

SavedDeptOf(ref) == RefIdToDept(dept_mappings, ref)

\* The rows run_reconciliation returns for a reference id when the stored
\* Dept mappings are `saved'.
RowsWith(ref, saved) ==
    LET merged == MergeMappings(cc_batch, mappings_df)
        all == [i \in 1..Len(merged) |->
                   ApplySavedDept(ResolveRow(merged[i], master_df),
                                  saved, master_df)]
    IN SelectSeq(all, LAMBDA r: r.CC_Reference_ID = ref)

BatchRefs == {cc_batch[i].CC_Reference_ID : i \in 1..Len(cc_batch)}

(***************************************************************************)
(* C13: with the vendor master and the description mapping unchanged,      *)
(* run_reconciliation resolves a row whose master category is COMMON and   *)
(* whose reference id has a saved Dept c to category ONLY c with Dept c,   *)
(* in every run as long as the saved row of the reference id stays the     *)
(* same; a row whose master category is not COMMON is resolved as if no    *)
(* Dept was saved.                                                         *)
(***************************************************************************)
C13_SavedDeptResolves ==
    /\ [](LET fresh == run_reconciliation(cc_batch)
              merged == MergeMappings(cc_batch, mappings_df)
          IN \A i \in 1..Len(fresh) :
                 LET c == SavedDeptOf(fresh[i].CC_Reference_ID)
                 IN /\ (MasterCategory(fresh[i].Vendor_Prefix) = "COMMON"
                           /\ c # NA)
                        => /\ c \in {"FBA", "FBM"}
                           /\ fresh[i].Category
                                  = (IF c = "FBA" THEN "ONLY FBA" ELSE "ONLY FBM")
                           /\ fresh[i].Dept = c
                    /\ MasterCategory(fresh[i].Vendor_Prefix) # "COMMON"
                        => fresh[i] = ResolveRow(merged[i], master_df))
    /\ [][\A ref \in BatchRefs :
              (/\ RefIdToDept(dept_mappings', ref) = SavedDeptOf(ref)
               /\ UNCHANGED <<cc_batch, mappings_df, master_df>>)
                  => RowsWith(ref, dept_mappings')
                         = RowsWith(ref, dept_mappings)]_vars

\* A run in a new session after Dept FBA was saved for a transaction with a
\* COMMON and a not COMMON candidate prefix, next to a transaction whose
\* saved Dept is FBM.
C13_Witness ==
    /\ Rendered
    /\ reco_df[1] = run_reconciliation(cc_batch)
    /\ \E i, j, k \in 1..Len(reco_df[1]) :
           /\ reco_df[1][i].CC_Reference_ID = reco_df[1][j].CC_Reference_ID
           /\ MasterCategory(reco_df[1][i].Vendor_Prefix) = "COMMON"
           /\ MasterCategory(reco_df[1][j].Vendor_Prefix) = "ONLY FBA"
           /\ SavedDeptOf(reco_df[1][i].CC_Reference_ID) = "FBM"
           /\ reco_df[1][i].Category = "ONLY FBM"
           /\ reco_df[1][k].Category = "ONLY FBA"
           /\ MasterCategory(reco_df[1][k].Vendor_Prefix) = "COMMON"

(***************************************************************************)
(* Helpers of the properties of the Common tab.                            *)
(***************************************************************************)
\* The description groups of a frame of COMMON rows, their reference ids
\* and their summed amounts (a reference id counts once).
GroupNorms(common) ==
    {StripUpper(common[i].CC_Description) : i \in 1..Len(common)}

GroupRefs(common, n) ==
    {common[i].CC_Reference_ID :
        i \in {j \in 1..Len(common) : StripUpper(common[j].CC_Description) = n}}

GroupAmount(common, n) ==
    agg_desc_group(DropDuplicateRefs(common, {}), n).Amount

RowsOfRefs(reco, refs) ==
    SelectSeq(reco, LAMBDA r: r.CC_Reference_ID \in refs)

\* The first run of the script in a session: nothing was submitted yet.
FirstRun == reco_df = <<>> /\ reco_df' # <<>>

FrameBefore ==
    IF reco_df = <<>> THEN run_reconciliation(cc_batch) ELSE reco_df[1]

(***************************************************************************)
(* C15: when a run of the script consolidates a description group of the   *)
(* COMMON rows, by the auto-rule or by Apply Selected, the store holds the *)
(* Dept of the consolidated row for every reference id of the group when   *)
(* the script comes to rest with the group merged into one row.            *)
(***************************************************************************)
C15_OverrideForEveryRef ==
    [][reco_df' # <<>> =>
          LET common == common_df(FrameBefore)
          IN \A n \in GroupNorms(common) :
                 LET refs == GroupRefs(common, n)
                     after == RowsOfRefs(reco_df'[1], refs)
                 IN (after # RowsOfRefs(FrameBefore, refs))
                        => /\ Len(after) = 1
                           /\ after[1].Dept \in {"FBA", "FBM"}
                           /\ \A ref \in refs :
                                  RefIdToDept(dept_mappings', ref) = after[1].Dept
      ]_vars

\* The three transactions of one description consolidated under FBA by
\* Apply Selected, each with its saved Dept.
C15_Witness ==
    /\ Rendered
    /\ Len(cc_batch) = 3
    /\ Len(reco_df[1]) = 1
    /\ reco_df[1][1].Category = "ONLY FBA"
    /\ reco_df[1][1].CC_Amt = 75000
    /\ \A ref \in BatchRefs : SavedDeptOf(ref) = "FBA"


\* The transactions of the batch with the given reference ids.
BatchRowsOf(refs) ==
    SelectSeq(cc_batch, LAMBDA r: r.CC_Reference_ID \in refs)

RefsWithDept(refs, d) == {ref \in refs : SavedDeptOf(ref) = d}

(***************************************************************************)
(* C17: for the COMMON rows of the frame and the saved Dept mappings,      *)
(* get_dept_mappings_for_common gives a description group the Dept all its *)
(* saved reference ids agree on; when they conflict, the more frequent     *)
(* Dept if it covers at least half of the reference ids of the group; and  *)
(* no entry when nothing is saved, when the more frequent Dept covers less *)
(* than half, and when the two Depts are tied.                             *)
(***************************************************************************)
C17_DeptFromSavedMappings ==
    Rendered =>
        LET common == common_df(reco_df[1])
            map == get_dept_mappings_for_common(common, dept_mappings)
        IN \A n \in GroupNorms(common) :
               LET refs == GroupRefs(common, n)
                   fba == Cardinality(RefsWithDept(refs, "FBA"))
                   fbm == Cardinality(RefsWithDept(refs, "FBM"))
                   most == IF fba > fbm THEN fba ELSE fbm
                   expected ==
                       IF fba + fbm = 0 \/ fba = fbm THEN NA
                       ELSE IF fbm = 0 THEN "FBA"
                       ELSE IF fba = 0 THEN "FBM"
                       ELSE IF 2 * most < Cardinality(refs) THEN NA
                       ELSE IF fba > fbm THEN "FBA" ELSE "FBM"
               IN IF expected = NA THEN n \notin DOMAIN map
                  ELSE n \in DOMAIN map /\ map[n] = expected


\* The rows of a ledger of one PO, and the entries of an errors list of one
\* PO.
RowsOfPO(deductions_df, po_number) ==
    SelectSeq(deductions_df, LAMBDA d: d.PO_Number = po_number)

ErrorsOfPO(list, po_number) ==
    SelectSeq(list, LAMBDA e: e.PO_Number = po_number)

InputsOfPO(inputs, po_number) ==
    SelectSeq(inputs, LAMBDA item: item.PO_Number = po_number)

ReconcileWith(saved) ==
    LET merged == MergeMappings(cc_batch, mappings_df)
    IN [i \in 1..Len(merged) |->
           ApplySavedDept(ResolveRow(merged[i], master_df), saved, master_df)]

\* The frame the next run of the script shows when it starts from `frame'.
NextView(frame, saved, choices, flags) ==
    CommonTab(frame, saved, choices, flags, <<>>).reco

(***************************************************************************)
(* C19: when a saved Dept mapping is changed or deleted in the store while *)
(* the session and the selected batch stay as they are, the next run of    *)
(* the script shows what it would show after run_reconciliation on the     *)
(* store as it is now.                                                     *)
(***************************************************************************)
C19_NextViewRecomputes ==
    [][(/\ reco_df # <<>>
        /\ dept_mappings' # dept_mappings
        /\ UNCHANGED <<reco_df, common_dept_choices, common_apply_flags,
                       cc_batch, mappings_df, master_df>>)
          => NextView(reco_df'[1], dept_mappings', common_dept_choices',
                      common_apply_flags')
                 = NextView(ReconcileWith(dept_mappings'), dept_mappings',
                            common_dept_choices', common_apply_flags')
      ]_vars


\* The candidate prefixes of a description: the prefixes of the mapping rows
\* of its normal form, in the order of the mapping table.
CandidatePrefixes(description) ==
    LET rows == SelectSeq(mappings_df, LAMBDA m:
                    NormalizeDescription(m.DESCRIPTION)
                        = NormalizeDescription(description))
    IN [i \in 1..Len(rows) |-> rows[i].PREFIX]

(***************************************************************************)
(* C20: run_reconciliation gives a transaction whose description has       *)
(* candidate prefixes, none of them in the vendor master, the first        *)
(* candidate as Vendor_Prefix and the category NOT AVBL; it gives the      *)
(* category Unmapped only to a transaction whose description has no        *)
(* mapping row.                                                            *)
(***************************************************************************)
C20_NoMasterEntry ==
    LET fresh == run_reconciliation(cc_batch)
    IN \A i \in 1..Len(fresh) :
           LET candidates == CandidatePrefixes(fresh[i].CC_Description)
           IN /\ (/\ candidates # <<>>
                  /\ \A k \in 1..Len(candidates) :
                         MasterTrim(master_df, candidates[k]) = <<>>)
                     => /\ fresh[i].Vendor_Prefix = candidates[1]
                        /\ fresh[i].Category = "NOT AVBL"
              /\ CategoryUpper(fresh[i].Category) = "UNMAPPED"
                     => candidates = <<>>


\* The Depts of the rows the vendor master has for a prefix.
MasterDepts(prefix) ==
    {master_df[i].DEPT : i \in {k \in 1..Len(master_df) :
                                    master_df[k].PREFIX = prefix}}

(***************************************************************************)
(* C21: run_reconciliation gives a transaction whose prefix has master     *)
(* rows for both channels, FBA and FBM, and whose reference id has no      *)
(* saved Dept the category COMMON and leaves its Dept and its payment      *)
(* terms empty: they are not those of one of the master rows of the        *)
(* prefix.                                                                 *)
(***************************************************************************)
C21_BothChannelsUnresolved ==
    LET fresh == run_reconciliation(cc_batch)
    IN \A i \in 1..Len(fresh) :
           (/\ {"FBA", "FBM"} \subseteq MasterDepts(fresh[i].Vendor_Prefix)
            /\ SavedDeptOf(fresh[i].CC_Reference_ID) = NA)
               => /\ fresh[i].Category = "COMMON"
                  /\ fresh[i].Dept = NA
                  /\ fresh[i].Payment_Terms \in {NA, NaN}


(***************************************************************************)
(* C22: when one of the required tables (vendor master, description        *)
(* mapping, PO table) is missing, every run of the script ends with the    *)
(* reported failure of the reconciliation before anything is computed: no  *)
(* frame is kept, no group is shown and no Dept mapping is saved.          *)
(***************************************************************************)
C22_MissingTableIsFatal ==
    (tables # AllTables /\ run_status # "none")
        => /\ run_status = "Unable to run reconciliation"
           /\ reco_df = <<>>
           /\ results_df = {}
           /\ dept_mappings = <<>>


\* The rows of a frame with a transaction date and the POs with a PO date.
DatedRows(reco) == SelectSeq(reco, LAMBDA r: r.CC_Txn_Date # NaT)

DatedPOs(pos) == SelectSeq(pos, LAMBDA po: po.PO_Date # NaT)

\* What the matching gives a group: its transactions and its POs.
MatchOf(g) ==
    [key |-> g.key, Total_CC_Amount |-> g.Total_CC_Amount,
     CC_Reference_IDs |-> g.CC_Reference_IDs,
     Total_PO_Amount100 |-> g.Total_PO_Amount100,
     PO_Numbers |-> g.PO_Numbers]

(***************************************************************************)
(* C23: a PO without a parsable date is among the matched POs of no group  *)
(* and adds nothing to a total_po_amount, a transaction without a parsable *)
(* date matches no PO, and the run completes: the groups of the dated      *)
(* transactions are those the run computes from the dated rows alone.      *)
(***************************************************************************)
C23_NullDatesExcluded ==
    Rendered =>
        /\ run_status = "ok"
        /\ \A g \in results_df :
               /\ \A n \in g.PO_Numbers : PORowOf(n).PO_Date # NaT
               /\ g.Total_PO_Amount100 = SumExpectedPOAmount100(g.PO_Numbers)
               /\ g.key.CC_Txn_Date = NaT
                      => g.PO_Numbers = {} /\ g.Total_PO_Amount100 = 0
        /\ {MatchOf(g) : g \in {h \in results_df : h.key.CC_Txn_Date # NaT}}
               = {MatchOf(g) :
                     g \in RenderResults(DatedRows(reco_df[1]), DatedPOs(po_df),
                                         ledger, master_df, grace_days)}

\* A run on a batch with a transaction without date and a PO table with a
\* PO without date, in which a dated transaction matched a PO.
C23_Witness ==
    /\ Rendered
    /\ \E i \in 1..Len(po_df) : po_df[i].PO_Date = NaT
    /\ \E g \in results_df : g.key.CC_Txn_Date = NaT /\ g.Total_CC_Amount > 0
    /\ \E g \in results_df : g.key.CC_Txn_Date # NaT /\ g.PO_Numbers # {}


\* The callers whose call returned a new balance for a deduction of this
\* amount on this PO.
Returned(po_number, amount) ==
    {c \in Callers : /\ calls[c].pc = "done"
                     /\ calls[c].status = "ok"
                     /\ calls[c].po_number = po_number
                     /\ calls[c].amount = amount}

(***************************************************************************)
(* C24: when the save_po_deduction calls of two sessions interleave at     *)
(* their reads and their write of the ledger, the deductions of every PO   *)
(* still sum to at most its base amount, and the ledger holds a row for    *)
(* every call that returned a new balance.                                 *)
(***************************************************************************)
C24_InterleavedCallsKeepBalance ==
    /\ \A n \in PONumbers :
           SumDeductions(ledger, n) <= PORowOf(n).PO_Amount
    /\ \A n \in PONumbers, amount \in DeductAmounts :
           Cardinality(Returned(n, amount))
               <= Len(SelectSeq(ledger, LAMBDA d:
                          d.PO_Number = n /\ d.Deduction_Amount = amount))

(***************************************************************************)
(* C25: when the user assigns a vendor to a previously unmapped            *)
(* description, the mapping table afterwards maps the description to the   *)
(* prefix of the chosen vendor (the existing rows of the description are   *)
(* updated, otherwise one row is added, and the rows of other descriptions *)
(* are unchanged), a later run_reconciliation of any batch resolves the    *)
(* description to the chosen prefix and not to Unmapped, and only the rows *)
(* that were UNMAPPED with that description are annotated anew in the      *)
(* current result.                                                         *)
(***************************************************************************)
\* The descriptions of the transactions of the batches.
BatchTexts ==
    { b[i].CC_Description : b \in UnmappedBatches, i \in {1, 2} }

\* The rows that run_reconciliation makes of a transaction with the
\* description text under the mapping table maps.
ResolvedRows(text, maps) ==
    LET merged == MergeRow(CCRow("R1", DayOf2024(3, 10), text, 50000), maps)
    IN { ResolveRow(merged[i], master_df) : i \in 1..Len(merged) }

MapsTo(maps, update) ==
    /\ \E i \in 1..Len(maps) :
           StripLower(maps[i].DESCRIPTION) = StripLower(update.description)
    /\ \A i \in 1..Len(maps) :
           StripLower(maps[i].DESCRIPTION) = StripLower(update.description)
               => maps[i].PREFIX = update.prefix

OtherMappingsKept(before, after, updates) ==
    /\ Len(after) >= Len(before)
    /\ Len(after) <= Len(before) + Len(updates)
    /\ \A i \in 1..Len(before) :
           \/ after[i] = before[i]
           \/ \E k \in 1..Len(updates) :
                  /\ StripLower(before[i].DESCRIPTION)
                         = StripLower(updates[k].description)
                  /\ after[i] = [before[i] EXCEPT !.PREFIX = updates[k].prefix]
    /\ \A i \in (Len(before) + 1)..Len(after) :
           \E k \in 1..Len(updates) :
               /\ after[i] = MappingRow(updates[k].description, updates[k].prefix)
               /\ \A j \in 1..Len(before) :
                      StripLower(before[j].DESCRIPTION)
                          # StripLower(updates[k].description)

OnlyUnmappedAnnotated(before, after, updates) ==
    /\ Len(after) = Len(before)
    /\ \A i \in 1..Len(before) :
           after[i] # before[i] =>
               /\ CategoryUpper(before[i].Category) = "UNMAPPED"
               /\ \E k \in 1..Len(updates) :
                      StripLower(before[i].CC_Description)
                          = StripLower(updates[k].description)

C25_TableAndResultUpdated ==
    [][mappings_df' # mappings_df =>
          /\ OtherMappingsKept(mappings_df, mappings_df', mapping_updates')
          /\ OnlyUnmappedAnnotated(reco_df[1], reco_df'[1], mapping_updates')
          /\ \A k \in 1..Len(mapping_updates') :
                 MapsTo(mappings_df', mapping_updates'[k])
      ]_vars


(***************************************************************************)
(* C26: the ledger is committed at once.  After a submission with at least *)
(* one accepted deduction the cached reconciliation is dropped and the     *)
(* script runs again, and every run reads the ledger, so the Results       *)
(* groups on screen (available balance, total_po_amount, depleted POs) are *)
(* never those of a ledger older than the last accepted deduction.         *)
(***************************************************************************)
C26_ResultsFromCurrentLedger ==
    (reco_df # <<>> /\ run_status = "ok") =>
        results_df = RenderResults(reco_df[1], po_df, ledger, master_df,
                                   grace_days)

\* A deduction was accepted and the Results groups differ from those of
\* the empty ledger.
C26_Witness ==
    /\ reco_df # <<>>
    /\ run_status = "ok"
    /\ ledger # <<>>
    /\ errors = <<>>
    /\ results_df # RenderResults(reco_df[1], po_df, <<>>, master_df,
                                  grace_days)

(***************************************************************************)
(* C27: a deduction is applied all or nothing.  Every save_po_deduction    *)
(* call that ends by raising an error, the failure of the storage write    *)
(* and of the verification after the write included, has added no row to   *)
(* the ledger and has removed none.                                        *)
(***************************************************************************)
C27_RaisingCallLeavesLedger ==
    [][outcome'.status \in {"InvalidAmount", "InsufficientBalance",
                            "DepletedPO", "SaveFailed", "VerifyFailed"}
          => ledger' = ledger]_vars

(***************************************************************************)
(* C28: after any sequence of save_dept_mappings calls, each with a list   *)
(* of distinct reference ids, the file of saved Dept mappings holds at     *)
(* most one row per reference id and only the departments FBA and FBM.  A  *)
(* call replaces the rows of exactly the given reference ids with the new  *)
(* department (the last write wins, and repeating the call changes         *)
(* nothing) and leaves the rows of all other reference ids as they were; a *)
(* call with a department outside {FBA, FBM} or with no id changes         *)
(* nothing.                                                                *)
(***************************************************************************)
StoreRowsOf(store, ref_id) ==
    SelectSeq(store, LAMBDA m: m.CC_Reference_ID = ref_id)

GivenIds(call) == {call.ref_ids[i] : i \in 1..Len(call.ref_ids)}

C28_OneRowPerRefId ==
    /\ [](\A ref_id \in RefIds :
              /\ Len(StoreRowsOf(dept_mappings, ref_id)) <= 1
              /\ \A i \in 1..Len(dept_mappings) :
                     dept_mappings[i].Dept \in {"FBA", "FBM"})
    /\ [][save_call' # save_call =>
            IF save_call'.dept \in {"FBA", "FBM"} /\ save_call'.ref_ids # <<>>
            THEN /\ \A ref_id \in GivenIds(save_call') :
                        StoreRowsOf(dept_mappings', ref_id)
                            = << [CC_Reference_ID |-> ref_id,
                                  Dept |-> save_call'.dept] >>
                 /\ \A ref_id \in RefIds \ GivenIds(save_call') :
                        StoreRowsOf(dept_mappings', ref_id)
                            = StoreRowsOf(dept_mappings, ref_id)
                 /\ save_dept_mappings(dept_mappings', save_call'.ref_ids,
                                       save_call'.dept) = dept_mappings'
            ELSE dept_mappings' = dept_mappings
       ]_vars

\* Two ids saved as FBA, then one of them saved again as FBM: the store
\* holds one row for each, the later department for the id saved twice.
C28_Witness ==
    /\ save_call.dept = "FBM"
    /\ Len(save_call.ref_ids) = 1
    /\ Len(dept_mappings) = 2
    /\ \E i \in 1..2 : dept_mappings[i].Dept = "FBA"
    /\ StoreRowsOf(dept_mappings, save_call.ref_ids[1])
           = << [CC_Reference_ID |-> save_call.ref_ids[1], Dept |-> "FBM"] >>

(***************************************************************************)
(* C29: the auto-rule goes before the choice of the user.  When the form   *)
(* of the Common tab is submitted with Apply ticked and Dept FBA for a     *)
(* description group whose amounts sum to less than 100, the Apply step    *)
(* forces FBM: the Dept mapping it saves for the reference ids of the      *)
(* group, and the Dept and Category of the consolidated row, are FBM and   *)
(* ONLY FBM, never FBA.                                                    *)
(***************************************************************************)
\* The rows of the description group key among the COMMON rows of reco.
CommonGroup(reco, key) ==
    SelectSeq(DropDuplicateRefs(common_df(reco), {}), LAMBDA r:
        StripUpper(r.CC_Description) = key)

GroupRefIds(reco, key) ==
    {CommonGroup(reco, key)[i].CC_Reference_ID :
        i \in 1..Len(CommonGroup(reco, key))}

\* The form asks for FBA on the group key, which sums to less than 100.
AppliedFBAUnderLimit(reco, form, key) ==
    /\ key \in DOMAIN form.Dept
    /\ form.Dept[key] = "FBA"
    /\ form.Apply[key]
    /\ CommonGroup(reco, key) # <<>>
    /\ SumCCAmt(CommonGroup(reco, key)) < AutoLimit

\* The rows of the reference ids in after are FBM rows, and FBM is saved
\* for each reference id.
ConsolidatedAsFBM(ref_ids, after, saved) ==
    /\ \A ref_id \in ref_ids : RefIdToDept(saved, ref_id) = "FBM"
    /\ \E i \in 1..Len(after) : after[i].CC_Reference_ID \in ref_ids
    /\ \A i \in 1..Len(after) :
           after[i].CC_Reference_ID \in ref_ids
               => after[i].Dept = "FBM" /\ after[i].Category = "ONLY FBM"

CommonForms(reco) ==
    LET norms == {StripUpper(common_df(reco)[i].CC_Description) :
                     i \in 1..Len(common_df(reco))}
    IN { <<>> } \cup
       { << [Dept |-> dept, Apply |-> apply] >> :
           dept \in [norms -> {"", "FBA", "FBM"}], apply \in [norms -> BOOLEAN] }

\* Every reference id of a COMMON group whose Dept cell holds a department
\* has a mapping with that department.
DeptCellsStored(reco, store, choices) ==
    \A key \in DOMAIN choices :
        \A i \in 1..Len(common_df(reco)) :
            StripUpper(common_df(reco)[i].CC_Description) = key
                => RefIdToDept(store, common_df(reco)[i].CC_Reference_ID)
                       = choices[key]

StoredAfter(tab) == DeptCellsStored(tab.reco, tab.store, tab.choices)

C30_OverridesWithoutApply ==
    (reco_df # <<>> /\ run_status = "ok") =>
        \A user \in CommonForms(reco_df[1]) :
            StoredAfter(CommonTab(reco_df[1], dept_mappings,
                                  common_dept_choices, common_apply_flags,
                                  user))

\* The last form left the Dept cell of a group of two reference ids empty
\* and ticked no Apply; a later render filled the cell from the saved
\* mappings, and both reference ids of the group, still COMMON, have the
\* department.
C30_Witness ==
    /\ reco_df # <<>>
    /\ common_form # <<>>
    /\ \E key \in DOMAIN common_form[1].Dept :
           /\ common_form[1].Dept[key] = ""
           /\ ~common_form[1].Apply[key]
           /\ key \in DOMAIN common_dept_choices
           /\ Cardinality(GroupRefIds(reco_df[1], key)) = 2
           /\ \A ref_id \in GroupRefIds(reco_df[1], key) :
                  RefIdToDept(dept_mappings, ref_id) = common_dept_choices[key]

====
